---- MODULE Spec2Model ----
(***************************************************************************)
(* A model of YouTubeChannelScraper (src/scrape_youtube_channel.py): the   *)
(* bootstrap of one scrape call and its continuation-driven pagination     *)
(* (Spec), the scan for JSON in script texts (ScanSpec), the helpers       *)
(* _find_value and _parse_video_renderer (HelperSpec), and the tree        *)
(* builder of src/bs4/__init__.py (SoupSpec).                              *)
(*                                                                         *)
(* JSON documents are tagged values: [t |-> "null"], [t |-> "str", v |-> s],*)
(* [t |-> "num", v |-> n], [t |-> "bool", v |-> b], [t |-> "list", v |-> a *)
(* sequence of values], [t |-> "dict", v |-> a sequence of <<key, value>>  *)
(* pairs in the document's key order].  Python's None is the null value.   *)
(* A float is [t |-> "float", m |-> m, e |-> e] for m * 10^e, where m is   *)
(* the numeral of an integer that does not end in 0 (or is "0"): a value   *)
(* of the range of binary64 kept as the decimal its text spells (what      *)
(* falls below the range is the float 0, what lies above it an infinity);  *)
(* [t |-> "nan"] and [t |-> "inf", sign |-> s] are the values of the       *)
(* literals NaN, Infinity and -Infinity.                                   *)
(*                                                                         *)
(* A str is a string of its characters.  A character is written as itself  *)
(* where a string of this text can hold it, and as its escape, \uXXXX or   *)
(* \UXXXXXXXX, where it cannot; the backslash is written as \u005c, so that *)
(* a backslash in a string always begins the escape of one character and   *)
(* no two strs are one string.  Characters gives the characters of a str.  *)
(***************************************************************************)
EXTENDS Integers, Sequences, FiniteSets, TLC

\* The channel page's grid and the continuation pages behind it hold at most
\* this many items together.
MaxItems == 4

\* The tree builder is fed at most this many events.
MaxEvents == 5

\* ------------------------------------------------------------------ JSON
None == [t |-> "null"]
JStr(s) == [t |-> "str", v |-> s]
JNum(n) == [t |-> "num", v |-> n]
JBool(b) == [t |-> "bool", v |-> b]
JFloat(m, e) == [t |-> "float", m |-> m, e |-> e]
NaN == [t |-> "nan"]
Infinity == [t |-> "inf", sign |-> 1]
NegativeInfinity == [t |-> "inf", sign |-> -1]
JList(items) == [t |-> "list", v |-> items]
JDict(pairs) == [t |-> "dict", v |-> pairs]

IsStr(x) == x.t = "str"
IsList(x) == x.t = "list"
IsDict(x) == x.t = "dict"

\* key in d
HasKey(d, key) == \E i \in 1..Len(d.v) : d.v[i][1] = key

\* d[key], for a key d holds
Lookup(d, key) ==
    LET i == CHOOSE j \in 1..Len(d.v) :
                 /\ d.v[j][1] = key
                 /\ \A k \in 1..(j - 1) : d.v[k][1] # key
    IN  d.v[i][2]

\* d.get(key)
Get(d, key) == IF HasKey(d, key) THEN Lookup(d, key) ELSE None

\* bool(x)
Truthy(x) ==
    CASE x.t = "null" -> FALSE
      [] x.t = "str"  -> x.v # ""
      [] x.t = "num"  -> x.v # 0
      [] x.t = "float" -> x.m # "0"
      [] x.t \in {"nan", "inf"} -> TRUE
      [] x.t = "bool" -> x.v
      [] x.t = "list" -> x.v # <<>>
      [] x.t = "dict" -> x.v # <<>>

YOUTUBE_BASE_URL == "https://www.youtube.com"

\* ------------------------------------------------------- generic helpers
RECURSIVE find_value(_, _)
RECURSIVE find_first(_, _)

RECURSIVE find_last(_, _)
\* the search over a sequence of nodes taken from its end
find_last(nodes, key) ==
    IF nodes = <<>> THEN None
    ELSE LET found == find_value(nodes[Len(nodes)], key)
         IN  IF found # None THEN found
             ELSE find_last(SubSeq(nodes, 1, Len(nodes) - 1), key)

\* The first non-None result of find_value over a sequence of nodes.
find_first(nodes, key) ==
    IF nodes = <<>> THEN None
    ELSE LET found == find_value(Head(nodes), key)
         IN  IF found # None THEN found ELSE find_first(Tail(nodes), key)

find_value(node, key) ==
    IF IsDict(node)
    THEN IF HasKey(node, key)
         THEN Lookup(node, key)
         ELSE find_first([i \in 1..Len(node.v) |-> node.v[i][2]], key)
    ELSE IF IsList(node)
         THEN find_first(node.v, key)
         ELSE None

RECURSIVE join(_)
\* "".join(parts)
join(parts) == IF parts = <<>> THEN "" ELSE Head(parts) \o join(Tail(parts))

RECURSIVE extract_runs_text_from(_)
extract_runs_text_from(items) ==
    IF items = <<>> THEN <<>>
    ELSE LET item == Head(items)
             rest == extract_runs_text_from(Tail(items))
         IN  IF IsDict(item) /\ IsStr(Get(item, "text"))
             THEN <<Get(item, "text").v>> \o rest
             ELSE rest

extract_runs_text(runs) ==
    IF ~IsList(runs) THEN <<>> ELSE extract_runs_text_from(runs.v)

extract_text(node) ==
    IF IsStr(node) THEN node
    ELSE IF IsDict(node)
         THEN IF IsStr(Get(node, "simpleText"))
              THEN Get(node, "simpleText")
              ELSE IF IsList(Get(node, "runs"))
                   THEN JStr(join(extract_runs_text(Get(node, "runs"))))
                   ELSE None
         ELSE None

extract_text_from_runs(data) ==
    IF IsDict(data)
    THEN IF HasKey(data, "runs")
         THEN JStr(join(extract_runs_text(Lookup(data, "runs"))))
         ELSE IF HasKey(data, "simpleText") /\ IsStr(Lookup(data, "simpleText"))
              THEN Lookup(data, "simpleText")
              ELSE None
    ELSE None

\* ------------------------------------------------ video extraction helpers
RECURSIVE Characters(_)
\* The characters of a str: a backslash begins the escape of one character.
Characters(text) ==
    IF text = "" THEN <<>>
    ELSE IF SubSeq(text, 1, 1) # "\\"
         THEN <<SubSeq(text, 1, 1)>> \o Characters(SubSeq(text, 2, Len(text)))
    ELSE IF SubSeq(text, 2, 2) = "u"
         THEN <<SubSeq(text, 1, 6)>> \o Characters(SubSeq(text, 7, Len(text)))
         ELSE <<SubSeq(text, 1, 10)>> \o Characters(SubSeq(text, 11, Len(text)))

\* text.find(c) over the characters of a text: the first position of c, 0 for none
FirstOf(chars, c) ==
    LET hits == {i \in 1..Len(chars) : chars[i] = c}
    IN  IF hits = {} THEN 0 ELSE CHOOSE i \in hits : \A j \in hits : i <= j

\* urlsplit, _UNSAFE_URL_BYTES_TO_REMOVE
Unsafe == {"\t", "\r", "\n"}

RECURSIVE replace_unsafe(_)
\* url.replace(b, "") for each unsafe character b
replace_unsafe(chars) ==
    IF chars = <<>> THEN <<>>
    ELSE IF Head(chars) \in Unsafe THEN replace_unsafe(Tail(chars))
    ELSE <<Head(chars)>> \o replace_unsafe(Tail(chars))

\* s.split(c, 1) at the position at of c (0: c does not occur): what stands in
\* front of c, and what stands behind it
Before(chars, at) == IF at = 0 THEN chars ELSE SubSeq(chars, 1, at - 1)
Behind(chars, at) == IF at = 0 THEN <<>> ELSE SubSeq(chars, at + 1, Len(chars))

\* urlunsplit: the parts put together again, without an empty query or an empty
\* fragment
urlunsplit(base, path, query, fragment) ==
    base \o join(path)
         \o (IF query # <<>> THEN "?" \o join(query) ELSE "")
         \o (IF fragment # <<>> THEN "#" \o join(fragment) ELSE "")

\* urlsplit: what stands in front of the fragment is split at its first "?",
\* whose position is mark
split_query(base, hierarchy, mark, fragment) ==
    urlunsplit(base, Before(hierarchy, mark), Behind(hierarchy, mark), fragment)

\* urlsplit: the reference is split at its first "#", whose position is hash
split_fragment(base, chars, hash) ==
    split_query(base, Before(chars, hash), FirstOf(Before(chars, hash), "?"),
                Behind(chars, hash))

\* urlsplit: tab, carriage return and line feed are removed from the reference
urlsplit(base, chars) == split_fragment(base, chars, FirstOf(chars, "#"))

\* urljoin(base, url) for a base of scheme and host and a reference that is a
\* rooted path without dot segments or parameters, a query and a fragment.
urljoin(base, url) == urlsplit(base, replace_unsafe(Characters(url)))

\* A VideoEntry, or None.
parse_video_renderer(renderer) ==
    LET video_id == Get(renderer, "videoId")
        title_info == IF HasKey(renderer, "title")
                      THEN Lookup(renderer, "title") ELSE JDict(<<>>)
        title == extract_text_from_runs(title_info)
    IN  IF ~IsStr(video_id) THEN None
        ELSE [video_id |-> video_id.v,
              title |-> IF Truthy(title) THEN title.v ELSE "",
              url |-> urljoin(YOUTUBE_BASE_URL, "/watch?v=" \o video_id.v),
              view_count_text |-> extract_text(Get(renderer, "viewCountText")),
              published_time |-> extract_text(Get(renderer, "publishedTimeText"))]

\* A token (a str value), or None.
extract_continuation_token(renderer) ==
    LET endpoint == Get(renderer, "continuationEndpoint")
        command == IF IsDict(endpoint)
                   THEN Get(endpoint, "continuationCommand") ELSE None
        token == IF IsDict(command) THEN Get(command, "token") ELSE None
        continuation_data == Get(renderer, "reloadContinuationData")
        reload == IF IsDict(continuation_data)
                  THEN Get(continuation_data, "continuation") ELSE None
    IN  IF IsStr(token) THEN token
        ELSE IF IsStr(reload) THEN reload
        ELSE None

RECURSIVE extract_videos_from_grid_until_malformed(_)
\* extract_videos_from_grid leaving the loop at the first item it cannot use
extract_videos_from_grid_until_malformed(items) ==
    IF items = <<>> THEN [videos |-> <<>>, tokens |-> <<>>]
    ELSE
      LET item == Head(items)
          rest == extract_videos_from_grid_until_malformed(Tail(items))
          renderer == Get(item, "richItemRenderer")
          content == Get(renderer, "content")
          video == Get(content, "videoRenderer")
          entry == parse_video_renderer(video)
          continuation == Get(item, "continuationItemRenderer")
          token == extract_continuation_token(continuation)
          nothing == [videos |-> <<>>, tokens |-> <<>>]
      IN  IF ~IsDict(item) THEN nothing
          ELSE IF IsDict(renderer)
               THEN IF IsDict(content) /\ IsDict(video) /\ entry # None
                    THEN [rest EXCEPT !.videos = <<entry>> \o @]
                    ELSE nothing
          ELSE IF IsDict(continuation) /\ Truthy(token)
               THEN [rest EXCEPT !.tokens = <<token.v>> \o @]
               ELSE rest

RECURSIVE extract_videos_from_grid(_)
\* [videos |-> the entries, tokens |-> the tokens] of a list of grid items.
extract_videos_from_grid(items) ==
    IF items = <<>> THEN [videos |-> <<>>, tokens |-> <<>>]
    ELSE
      LET item == Head(items)
          rest == extract_videos_from_grid(Tail(items))
          renderer == Get(item, "richItemRenderer")
          content == Get(renderer, "content")
          video == Get(content, "videoRenderer")
          entry == parse_video_renderer(video)
          continuation == Get(item, "continuationItemRenderer")
          token == extract_continuation_token(continuation)
      IN  IF ~IsDict(item) THEN rest
          ELSE IF IsDict(renderer)
               THEN IF IsDict(content) /\ IsDict(video) /\ entry # None
                    THEN [rest EXCEPT !.videos = <<entry>> \o @]
                    ELSE rest
          ELSE IF IsDict(continuation) /\ Truthy(token)
               THEN [rest EXCEPT !.tokens = <<token.v>> \o @]
               ELSE rest

\* ---------------------------------------------------- initial grid parsing
RECURSIVE grid_of_tabs(_)
\* The contents of the first selected tab that holds a grid; None when no tab does.
grid_of_tabs(tabs) ==
    IF tabs = <<>> THEN None
    ELSE
      LET tab == Head(tabs)
          renderer == IF IsDict(tab) THEN Get(tab, "tabRenderer") ELSE None
          content == Get(renderer, "content")
          grid == find_value(content, "richGridRenderer")
          contents == Get(grid, "contents")
      IN  IF /\ IsDict(renderer)
             /\ Truthy(Get(renderer, "selected"))
             /\ IsDict(content)
             /\ IsDict(grid)
             /\ IsList(contents)
          THEN contents
          ELSE grid_of_tabs(Tail(tabs))

\* The exceptions _extract_initial_grid ends in.
RuntimeError == [t |-> "RuntimeError"]
TypeError == [t |-> "TypeError"]

\* What the for of line 195 takes from tabs: the elements of a list, the keys
\* of a mapping, the characters of a str.
iterated(tabs) ==
    IF IsList(tabs) THEN tabs.v
    ELSE IF IsDict(tabs) THEN [i \in 1..Len(tabs.v) |-> JStr(tabs.v[i][1])]
    ELSE [i \in 1..Len(Characters(tabs.v)) |-> JStr(Characters(tabs.v)[i])]

\* Lines 195-208: the grid of the tabs, RuntimeError where no tab holds one, and
\* TypeError where tabs is no list, mapping or str, which the for cannot take
\* and no except clause encloses.
located(contents) == IF contents = None THEN RuntimeError ELSE contents
grid_under(tabs) ==
    IF ~(IsList(tabs) \/ IsDict(tabs) \/ IsStr(tabs)) THEN TypeError
    ELSE located(grid_of_tabs(iterated(tabs)))

\* The list of grid items (a list value), or the exception the code raises.
extract_initial_grid(initial_data) ==
    LET contents == Get(initial_data, "contents")
        browse == Get(contents, "twoColumnBrowseResultsRenderer")
    IN  IF /\ IsDict(initial_data) /\ HasKey(initial_data, "contents")
           /\ IsDict(contents) /\ HasKey(contents, "twoColumnBrowseResultsRenderer")
           /\ IsDict(browse) /\ HasKey(browse, "tabs")
        THEN grid_under(Get(browse, "tabs"))
        ELSE RuntimeError

\* ------------------------------------------------------------- the inputs
\* Two video ids, one of them the empty string.
VideoIds == {"a", ""}
Tokens == {"t1", "t2"}
Limits == {None, JNum(0), JNum(1)}

VideoItem(video_id) ==
    JDict(<< <<"richItemRenderer",
               JDict(<< <<"content",
                          JDict(<< <<"videoRenderer",
                                     JDict(<< <<"videoId", video_id>> >>)>> >>)>> >>)>> >>)

ContinuationItem(token) ==
    JDict(<< <<"continuationItemRenderer",
               JDict(<< <<"continuationEndpoint",
                          JDict(<< <<"continuationCommand",
                                     JDict(<< <<"token", token>> >>)>> >>)>> >>)>> >>)

\* A video item whose id is not a string, and an item that is no mapping.
MalformedItem == VideoItem(JNum(7))
NonMappingItem == JStr("junk")

GridItems ==
    {VideoItem(JStr(id)) : id \in VideoIds}
        \cup {ContinuationItem(JStr(t)) : t \in Tokens}
        \cup {MalformedItem, NonMappingItem}

\* Every list of at most n grid items.
GridsUpTo(n) == UNION {[1..k -> GridItems] : k \in 0..n}

\* The browse endpoint's answers: a transport failure, a document without
\* continuation items, or a document that carries a page of them.
HTTPError == [t |-> "HTTPError"]
URLError == [t |-> "URLError"]
Unused == [t |-> "unused"]
EmptyResponse == JDict(<< <<"responseContext", JDict(<<>>)>> >>)
PageResponse(items) ==
    JDict(<< <<"responseContext", JDict(<<>>)>>,
             <<"onResponseReceivedActions",
               JList(<< JDict(<< <<"appendContinuationItemsAction",
                                   JDict(<< <<"continuationItems", JList(items)>> >>)>> >>) >>)>> >>)

Responses(n) == {HTTPError, EmptyResponse} \cup {PageResponse(g) : g \in GridsUpTo(n)}

\* The page of grid items a response carries (empty when it carries none, and
\* for a failure, which is no document).
ItemsOf(response) ==
    LET items == find_value(response, "continuationItems")
    IN  IF IsList(items) THEN items.v ELSE <<>>

TokenSet(items) ==
    LET tokens == extract_videos_from_grid(items).tokens
    IN  {tokens[i] : i \in 1..Len(tokens)}

IdSet(items) ==
    LET videos == extract_videos_from_grid(items).videos
    IN  {videos[i].video_id : i \in 1..Len(videos)}

NoServer == [t \in Tokens |-> Unused]

\* The grid items of the pages a server holds.
RECURSIVE ItemCount(_, _)
ItemCount(server, among) ==
    IF among = {} THEN 0
    ELSE LET token == CHOOSE t \in among : TRUE
         IN  Len(ItemsOf(server[token])) + ItemCount(server, among \ {token})

RECURSIVE Answers(_, _, _)
\* Every way to fix the endpoint's answer for each token in need, within a
\* budget of grid items.
Answers(server, need, budget) ==
    IF need = {} THEN {server}
    ELSE LET token == CHOOSE t \in need : TRUE
         IN  UNION { Answers([server EXCEPT ![token] = r], need \ {token},
                             budget - Len(ItemsOf(r)))
                     : r \in Responses(budget) }

\* The initial-state document of a channel page whose videos tab holds grid.
StateDoc(grid) ==
    JDict(<< <<"contents",
               JDict(<< <<"twoColumnBrowseResultsRenderer",
                          JDict(<< <<"tabs",
                                     JList(<< JDict(<< <<"tabRenderer",
                                                         JDict(<< <<"title", JStr("Home")>> >>)>> >>),
                                              JDict(<< <<"tabRenderer",
                                                         JDict(<< <<"selected", JBool(TRUE)>>,
                                                                  <<"content",
                                                                    JDict(<< <<"richGridRenderer",
                                                                               JDict(<< <<"contents", JList(grid)>> >>)>> >>)>> >>)>> >>) >>)>> >>)>> >>)>> >>)

\* A document whose tabs are not a list.
TabsDoc(tabs) ==
    JDict(<< <<"contents",
               JDict(<< <<"twoColumnBrowseResultsRenderer",
                          JDict(<< <<"tabs", tabs>> >>)>> >>)>> >>)
OtherTabs == {JNum(7), None, JStr("ab"), JDict(<< <<"tabRenderer", JDict(<<>>)>> >>)}

\* Documents in which the code finds no grid: no tabs, and no selected tab.
NoTabsDoc == JDict(<< <<"contents", JDict(<<>>)>> >>)
NoSelectedTabDoc ==
    JDict(<< <<"contents",
               JDict(<< <<"twoColumnBrowseResultsRenderer",
                          JDict(<< <<"tabs",
                                     JList(<< JDict(<< <<"tabRenderer",
                                                         JDict(<< <<"title", JStr("Home")>> >>)>> >>) >>)>> >>)>> >>)>> >>)

StateDocs ==
    {StateDoc(g) : g \in GridsUpTo(MaxItems)} \cup {NoTabsDoc, NoSelectedTabDoc}
        \cup {TabsDoc(tabs) : tabs \in OtherTabs}

Context == JDict(<< <<"client", JDict(<< <<"clientName", JStr("WEB")>> >>)>> >>)
ConfigDoc(api_key, context) ==
    JDict(<< <<"INNERTUBE_API_KEY", api_key>>, <<"INNERTUBE_CONTEXT", context>> >>)

ConfigDocs ==
    { ConfigDoc(JStr("key"), Context),
      ConfigDoc(JStr(""), Context),
      ConfigDoc(JStr("key"), JDict(<<>>)),
      ConfigDoc(JNum(7), Context),
      ConfigDoc(JStr("key"), JList(<<>>)),
      JDict(<< <<"INNERTUBE_CONTEXT", Context>> >>) }

\* What the channel page's scripts hold: the document behind each marker, None
\* where no script yields one.
Htmls == [ytInitialData : StateDocs \cup {None}, ytcfg : ConfigDocs \cup {None}]

\* ------------------------------------------------- text and the JSON scan
\* A text is a sequence of characters.  Positions count from 1, and 0 stands for
\* the -1 of str.find.

\* text.find(sub, start): the first position at or after start where sub occurs
Find(text, sub, start) ==
    LET hits == {i \in start..(Len(text) - Len(sub) + 1) :
                    SubSeq(text, i, i + Len(sub) - 1) = sub}
    IN  IF hits = {} THEN 0 ELSE CHOOSE i \in hits : \A j \in hits : i <= j

\* json.loads ------------------------------------------------------------
\* The reader of the json module as _extract_json_object calls it (strict, no
\* hooks).  An integer is its value, a float the decimal its text spells where
\* that lies in the range of binary64.
Digits == {"0", "1", "2", "3", "4", "5", "6", "7", "8", "9"}
HexDigits == <<"0", "1", "2", "3", "4", "5", "6", "7", "8", "9",
               "a", "b", "c", "d", "e", "f">>
UpperHexDigits == <<"0", "1", "2", "3", "4", "5", "6", "7", "8", "9",
                    "A", "B", "C", "D", "E", "F">>
IsHexDigit(c) == \E n \in 1..16 : c \in {HexDigits[n], UpperHexDigits[n]}
HexValue(c) == (CHOOSE n \in 1..16 : c \in {HexDigits[n], UpperHexDigits[n]}) - 1
\* int(c) for a digit
DigitValue(c) == (CHOOSE n \in 1..10 : HexDigits[n] = c) - 1
Whitespace == {" ", "\t", "\n", "\r"}
Quote == "\""
\* The backslash, by its escape.
Backslash == "\\u005c"


\* The characters from the space to the tilde, by code point (the backslash,
\* and the grave accent, which a string of this text cannot hold, by their
\* escapes).
Ascii ==
    <<" ", "!", "\"", "#", "$", "%", "&", "'", "(", ")", "*", "+", ",", "-", ".", "/",
      "0", "1", "2", "3", "4", "5", "6", "7", "8", "9", ":", ";", "<", "=", ">", "?",
      "@", "A", "B", "C", "D", "E", "F", "G", "H", "I", "J", "K", "L", "M", "N", "O",
      "P", "Q", "R", "S", "T", "U", "V", "W", "X", "Y", "Z", "[", "\\u005c", "]", "^", "_",
      "\\u0060", "a", "b", "c", "d", "e", "f", "g", "h", "i", "j", "k", "l", "m", "n", "o",
      "p", "q", "r", "s", "t", "u", "v", "w", "x", "y", "z", "{", "|", "}", "~">>

RECURSIVE HexText(_, _)
\* n written with at least width hexadecimal digits
HexText(n, width) ==
    IF n = 0 /\ width <= 0 THEN ""
    ELSE HexText(n \div 16, width - 1) \o HexDigits[(n % 16) + 1]

\* chr(n): the character itself where this text can spell it, and the escape
\* that names it elsewhere.
Chr(n) ==
    IF n \in 32..126 THEN Ascii[n - 31]
    ELSE IF n = 9 THEN "\t"
    ELSE IF n = 10 THEN "\n"
    ELSE IF n = 12 THEN "\f"
    ELSE IF n = 13 THEN "\r"
    ELSE IF n < 65536 THEN "\\u" \o HexText(n, 4)
    ELSE "\\U" \o HexText(n, 8)

\* The characters below the space: a string of a JSON text must not hold one
\* unescaped.
ControlCharacters == {Chr(n) : n \in 0..31}

\* json.decoder.BACKSLASH: the characters that may follow a backslash, other
\* than u, and what each stands for
Escapes == {Quote, Backslash, "/", "b", "f", "n", "r", "t"}
Unescaped(c) ==
    CASE c = "b" -> Chr(8)
      [] c = "f" -> "\f"
      [] c = "n" -> "\n"
      [] c = "r" -> "\r"
      [] c = "t" -> "\t"
      [] OTHER -> c

JSONDecodeError == [t |-> "JSONDecodeError"]
RecursionError == [t |-> "RecursionError"]
ValueError == [t |-> "ValueError"]
\* The exceptions json.loads raises for a str.
LoadErrors == {JSONDecodeError, RecursionError, ValueError}

\* The outcome of a reader: the value and the position behind it, or the
\* exception that ends the decoding.  Failed is a text that is no JSON, which
\* raw_decode and the readers report as JSONDecodeError.
Stopped(error) == [ok |-> FALSE, error |-> error]
Failed == Stopped(JSONDecodeError)
Parsed(v, next) == [ok |-> TRUE, v |-> v, next |-> next]

\* sys.getrecursionlimit(), which the program never sets.
RecursionLimit == 1000
\* The frames in use where line 173 calls json.loads in the program run as a
\* script: the module (line 387), main, scrape, _extract_bootstrap_data,
\* _find_json_in_scripts and _extract_json_object.
CallDepth == 6
\* json.loads, JSONDecoder.decode and JSONDecoder.raw_decode, from where the
\* scanner runs without a frame of its own.
DecoderDepth == CallDepth + 3
\* sys.get_int_max_str_digits(): int(text) raises ValueError for more digits.
MaxStrDigits == 4300

\* The scanner reports a text that is no JSON in one of two ways.  Where no
\* value starts it raises StopIteration, from which raw_decode makes the
\* JSONDecodeError in its own frame: that is Failed.  A bad string, a missing
\* comma, colon or quote of a key it reports itself (raise_errmsg), by calling
\* the class JSONDecodeError, and that call takes three levels of the recursion
\* limit at the depth the scanner has reached: it ends in RecursionError where
\* they are not left.
errmsg(depth) ==
    IF depth + 3 < RecursionLimit THEN Failed ELSE Stopped(RecursionError)

\* parse_constant(name) for NaN, Infinity and -Infinity, a call that takes one
\* level of the recursion limit.
parse_constant(value, next, depth) ==
    IF depth + 1 < RecursionLimit THEN Parsed(value, next) ELSE Stopped(RecursionError)

\* s[i:i+1]
At(text, i) == IF i \in 1..Len(text) THEN text[i] ELSE ""

\* s[i:i+len(word)] == word
StartsWith(text, i, word) ==
    /\ i + Len(word) - 1 <= Len(text)
    /\ SubSeq(text, i, i + Len(word) - 1) = word

RECURSIVE skip_whitespace(_, _)
\* WHITESPACE.match(text, i).end()
skip_whitespace(text, i) ==
    IF i <= Len(text) /\ text[i] \in Whitespace THEN skip_whitespace(text, i + 1) ELSE i

\* dict(pairs): the value of the key is replaced where the object already holds
\* the key.
Put(pairs, key, value) ==
    IF \E i \in 1..Len(pairs) : pairs[i][1] = key
    THEN [i \in 1..Len(pairs) |-> IF pairs[i][1] = key THEN <<key, value>> ELSE pairs[i]]
    ELSE Append(pairs, <<key, value>>)

RECURSIVE digits_end(_, _)
\* The position after the run of digits from position i.
digits_end(text, i) ==
    IF At(text, i) \in Digits THEN digits_end(text, i + 1) ELSE i

RECURSIVE digits_value(_)
\* int(chars) for a run of digits
digits_value(chars) ==
    IF chars = <<>> THEN 0
    ELSE 10 * digits_value(SubSeq(chars, 1, Len(chars) - 1)) + DigitValue(chars[Len(chars)])

\* The float 0.
Zero == JFloat("0", 0)

RECURSIVE normal(_, _, _)
\* digits * 10^e, or its negative, with no trailing zero in the digits, which
\* begin with none
normal(negative, digits, e) ==
    IF digits[Len(digits)] = "0"
    THEN normal(negative, SubSeq(digits, 1, Len(digits) - 1), e + 1)
    ELSE JFloat((IF negative THEN "-" ELSE "") \o join(digits), e)

Signed(negative, n) == IF negative THEN 0 - n ELSE n

RECURSIVE significant(_)
\* a run of digits without its leading zeros
significant(digits) ==
    IF digits # <<>> /\ Head(digits) = "0" THEN significant(Tail(digits)) ELSE digits

\* float(text) rounds to binary64, to the nearest value and in a tie to the
\* even one.  Half of the smallest float above 0 is 2^-1075, which is
\* 0.HalfSmallest * 10^HalfSmallestTop: a decimal at or below it is rounded to
\* 0.  The largest float and half a step above it is 2^1024 - 2^970, which is
\* 0.Beyond * 10^BeyondTop: a decimal at or above it is rounded to an infinity.
HalfSmallest ==
    "2470328229206232720882843964341106861825299013071623822127928412"
        \o "5033775363510437593264991818081799618989828234772285886546332835"
        \o "5177969898199387398005390939063150356595155702263922908583924491"
        \o "0518443593180284993653615250031937045767824921936562366986365848"
        \o "0757001585769269903706311928279558551332927834338409351978015531"
        \o "2465972635795746227664652728272200563740064854999770965994704540"
        \o "2082816622623785739345073633900796776193057750674017632467360096"
        \o "8951340535537458516661134223766678604162159680461914467291840300"
        \o "5300575308490487653917113865916462395249126236538818796362393732"
        \o "8042389101867234849766823508986338858792562830275599565752445550"
        \o "7255189313690836254779186948667994968324049705821028513185451396"
        \o "213837722826145437693412532098591327667236328125"
HalfSmallestTop == -323
Beyond ==
    "1797693134862315807937289714053034150799341327100378269361737789"
        \o "8044496829276475094664901797758720709633028641669288791094655554"
        \o "7851940402630657488671505820681908902000708383676273854845817711"
        \o "5317644757302700698555713669596228429148198608349364752927190741"
        \o "68444365510704342711559699508093042880177904174497792"
BeyondTop == 309

\* The digit at position i of a run of digits that zeros follow.
DigitAt(digits, i) == IF i <= Len(digits) THEN DigitValue(digits[i]) ELSE 0
DigitIn(bound, i) == IF i <= Len(bound) THEN DigitValue(SubSeq(bound, i, i)) ELSE 0

RECURSIVE fraction_order(_, _, _)
\* The order of 0.digits and 0.bound, which agree in front of position i: -1
\* where 0.digits is the smaller one, 0 where they are equal, 1 where it is the
\* larger one.
fraction_order(digits, bound, i) ==
    IF i > Len(digits) /\ i > Len(bound) THEN 0
    ELSE IF DigitAt(digits, i) < DigitIn(bound, i) THEN -1
    ELSE IF DigitAt(digits, i) > DigitIn(bound, i) THEN 1
    ELSE fraction_order(digits, bound, i + 1)

\* The float of 0.digits * 10^top, which is digits * 10^e, for digits that
\* begin with none of their zeros.
rounded(negative, digits, e, top) ==
    IF \/ top < HalfSmallestTop
       \/ top = HalfSmallestTop /\ fraction_order(digits, HalfSmallest, 1) <= 0
    THEN Zero
    ELSE IF \/ top > BeyondTop
            \/ top = BeyondTop /\ fraction_order(digits, Beyond, 1) >= 0
         THEN IF negative THEN NegativeInfinity ELSE Infinity
         ELSE normal(negative, digits, e)

\* float(text) for the digits of the integer and the fraction and the power of
\* ten they are multiplied with
float_of(negative, digits, e) ==
    IF digits = <<>> THEN Zero
    ELSE rounded(negative, digits, e, Len(digits) + e)

\* The value of the digits of an exponent.  From ten digits on the power is
\* beyond the range whatever the digits in front of it are, and the value is
\* counted as 10^9.
exponent_value(digits) ==
    IF Len(digits) > 9 THEN 1000000000 ELSE digits_value(digits)

\* json.scanner.NUMBER_RE, (-?(?:0|[1-9]\d*))(\.\d+)?([eE][-+]?\d+)?, and the int
\* or float of the match, part by part.
\* float(integer + frac + exp) for a match with an exponent
number_with_exponent(text, negative, digits, places, exp_negative, exp_first, exp_end) ==
    Parsed(float_of(negative, significant(digits),
                    Signed(exp_negative,
                           exponent_value(significant(SubSeq(text, exp_first, exp_end - 1))))
                        - places),
           exp_end)

\* The exponent, if one stands at position from, and the value of the match.
number_exponent(text, negative, integer, frac, from, exp_first) ==
    IF At(text, from) \in {"e", "E"} /\ At(text, exp_first) \in Digits
    THEN number_with_exponent(text, negative, integer \o frac, Len(frac),
                              At(text, from + 1) = "-", exp_first,
                              digits_end(text, exp_first))
    ELSE IF frac # <<>>
         THEN Parsed(float_of(negative, significant(integer \o frac), 0 - Len(frac)),
                     from)
         ELSE IF Len(integer) > MaxStrDigits THEN Stopped(ValueError)
         ELSE Parsed(JNum(Signed(negative, digits_value(integer))), from)

\* frac_end: the position after the fraction, integer_end where there is none
number_fraction(text, negative, first, integer_end, frac_end) ==
    number_exponent(text, negative, SubSeq(text, first, integer_end - 1),
                    SubSeq(text, integer_end + 1, frac_end - 1), frac_end,
                    IF At(text, frac_end + 1) \in {"-", "+"}
                    THEN frac_end + 2 ELSE frac_end + 1)

number_integer(text, negative, first, integer_end) ==
    number_fraction(text, negative, first, integer_end,
                    IF At(text, integer_end) = "." /\ At(text, integer_end + 1) \in Digits
                    THEN digits_end(text, integer_end + 1) ELSE integer_end)

\* first: the position after the sign
number_digits(text, negative, first) ==
    IF At(text, first) \notin Digits THEN Failed
    ELSE number_integer(text, negative, first,
                        IF At(text, first) = "0" THEN first + 1
                        ELSE digits_end(text, first))

\* The number at position i.
parse_number(text, i) ==
    number_digits(text, At(text, i) = "-", IF At(text, i) = "-" THEN i + 1 ELSE i)

\* The four hexadecimal digits of a \uXXXX escape whose u is at position i.
HasHex4(text, i) == \A k \in 1..4 : IsHexDigit(At(text, i + k))
Hex4(text, i) ==
    4096 * HexValue(text[i + 1]) + 256 * HexValue(text[i + 2])
        + 16 * HexValue(text[i + 3]) + HexValue(text[i + 4])

RECURSIVE scanstring(_, _, _)

\* chr(code) joins the string and the scan goes on at position next
decoded(text, next, chars, code) == scanstring(text, next, Append(chars, Chr(code)))

\* A \uXXXX escape of value uni at position i that a second one of value uni2
\* follows: the two make one character where they are a surrogate pair.
surrogate_pair(text, i, chars, uni, uni2) ==
    IF uni2 \in 56320..57343
    THEN decoded(text, i + 12, chars, 65536 + 1024 * (uni - 55296) + (uni2 - 56320))
    ELSE decoded(text, i + 6, chars, uni)

\* A \uXXXX escape of value uni at position i.
unicode_escape(text, i, chars, uni) ==
    IF uni \in 55296..56319 /\ StartsWith(text, i + 6, <<Backslash, "u">>)
    THEN IF HasHex4(text, i + 7)
         THEN surrogate_pair(text, i, chars, uni, Hex4(text, i + 7))
         ELSE Failed
    ELSE decoded(text, i + 6, chars, uni)

\* scanstring (strict) from position i inside a string, after the characters
\* chars of it: up to the closing quote, with the escapes decoded.  A \uXXXX
\* escape takes four hexadecimal digits, as the module's C scanner reads it.
scanstring(text, i, chars) ==
    IF i > Len(text) THEN Failed
    ELSE IF text[i] = Quote THEN Parsed(JStr(join(chars)), i + 1)
    ELSE IF text[i] \in ControlCharacters THEN Failed
    ELSE IF text[i] # Backslash THEN scanstring(text, i + 1, Append(chars, text[i]))
    ELSE IF At(text, i + 1) = "u"
         THEN IF HasHex4(text, i + 1)
              THEN unicode_escape(text, i, chars, Hex4(text, i + 1))
              ELSE Failed
    ELSE IF At(text, i + 1) \in Escapes
         THEN scanstring(text, i + 2, Append(chars, Unescaped(text[i + 1])))
         ELSE Failed

\* What a reader of the scanner gives at recursion depth depth for the outcome
\* read: every failure of it is one the scanner reports itself.
reported(read, depth) == IF read.ok THEN read ELSE errmsg(depth)

\* The characters after an opening quote, up to the closing one, read at
\* recursion depth depth.
parse_string(text, i, depth) == reported(scanstring(text, i, <<>>), depth)

RECURSIVE parse_value(_, _, _)
RECURSIVE parse_elements(_, _, _, _)
RECURSIVE parse_members(_, _, _, _)

\* The readers of arrays and objects run at the recursion depth of their array
\* or object, which is the depth their values are read from.
\* JSONArray, behind an element: after is the position behind it and the
\* whitespace that follows it.
elements_next(text, items, after, depth) ==
    IF At(text, after) = "]" THEN Parsed(JList(items), after + 1)
    ELSE IF At(text, after) = ","
         THEN parse_elements(text, skip_whitespace(text, after + 1), items, depth)
         ELSE errmsg(depth)

elements_value(text, items, element, depth) ==
    IF ~element.ok THEN element
    ELSE elements_next(text, Append(items, element.v),
                       skip_whitespace(text, element.next), depth)

\* JSONArray, the loop: the elements of an array from the first position i of
\* one, and the array's closing bracket.
parse_elements(text, i, items, depth) ==
    elements_value(text, items, parse_value(text, i, depth), depth)

\* JSONArray from the position after the opening bracket
parse_array(text, i, depth) ==
    LET inside == skip_whitespace(text, i)
    IN  IF At(text, inside) = "]" THEN Parsed(JList(<<>>), inside + 1)
        ELSE parse_elements(text, inside, <<>>, depth)

\* JSONObject, behind a comma: name is the position behind it and the
\* whitespace that follows it.
members_more(text, pairs, name, depth) ==
    IF At(text, name) = Quote THEN parse_members(text, name + 1, pairs, depth)
    ELSE errmsg(depth)

\* JSONObject, behind a member's value
members_next(text, pairs, after, depth) ==
    IF At(text, after) = "}" THEN Parsed(JDict(pairs), after + 1)
    ELSE IF At(text, after) = ","
         THEN members_more(text, pairs, skip_whitespace(text, after + 1), depth)
         ELSE errmsg(depth)

members_value(text, pairs, key, value, depth) ==
    IF ~value.ok THEN value
    ELSE members_next(text, Put(pairs, key, value.v),
                      skip_whitespace(text, value.next), depth)

\* JSONObject, behind a key: colon is the position behind it and the whitespace
\* that follows it.
members_colon(text, pairs, key, colon, depth) ==
    IF At(text, colon) # ":" THEN errmsg(depth)
    ELSE members_value(text, pairs, key,
                       parse_value(text, skip_whitespace(text, colon + 1), depth),
                       depth)

members_key(text, pairs, key, depth) ==
    IF ~key.ok THEN key
    ELSE members_colon(text, pairs, key.v.v, skip_whitespace(text, key.next), depth)

\* JSONObject, the loop: the members of an object from the position i after the
\* opening quote of a key, and the object's closing brace.
parse_members(text, i, pairs, depth) ==
    members_key(text, pairs, parse_string(text, i, depth), depth)

\* JSONObject from the position after the opening brace
parse_object(text, i, depth) ==
    LET inside == skip_whitespace(text, i)
    IN  IF At(text, inside) = "}" THEN Parsed(JDict(<<>>), inside + 1)
        ELSE IF At(text, inside) = Quote
             THEN parse_members(text, inside + 1, <<>>, depth)
        ELSE errmsg(depth)

\* scan_once, its last cases: a number, or one of the literals that follow the
\* numbers.  A number that matches and whose int raises ends the decoding.
number_or_literal(text, i, number, depth) ==
    IF number.ok \/ number.error # JSONDecodeError THEN number
    ELSE IF StartsWith(text, i, <<"N", "a", "N">>) THEN parse_constant(NaN, i + 3, depth)
    ELSE IF StartsWith(text, i, <<"I", "n", "f", "i", "n", "i", "t", "y">>)
         THEN parse_constant(Infinity, i + 8, depth)
    ELSE IF StartsWith(text, i, <<"-", "I", "n", "f", "i", "n", "i", "t", "y">>)
         THEN parse_constant(NegativeInfinity, i + 9, depth)
    ELSE Failed

\* Py_EnterRecursiveCall in front of an object or an array, which is read one
\* level below depth: RecursionError where that level is the limit.
entered(depth) == depth + 1 < RecursionLimit

\* scan_once(text, i) at recursion depth depth: the value that starts at
\* position i, which no whitespace may precede
parse_value(text, i, depth) ==
    IF i > Len(text) THEN Failed
    ELSE IF text[i] = Quote THEN parse_string(text, i + 1, depth)
    ELSE IF text[i] \in {"{", "["} /\ ~entered(depth) THEN Stopped(RecursionError)
    ELSE IF text[i] = "{" THEN parse_object(text, i + 1, depth + 1)
    ELSE IF text[i] = "[" THEN parse_array(text, i + 1, depth + 1)
    ELSE IF StartsWith(text, i, <<"n", "u", "l", "l">>) THEN Parsed(None, i + 4)
    ELSE IF StartsWith(text, i, <<"t", "r", "u", "e">>) THEN Parsed(JBool(TRUE), i + 4)
    ELSE IF StartsWith(text, i, <<"f", "a", "l", "s", "e">>)
         THEN Parsed(JBool(FALSE), i + 5)
    ELSE number_or_literal(text, i, parse_number(text, i), depth)

\* JSONDecoder.decode: the value, which only whitespace may follow, or the
\* exception of the reader
decode(text, value) ==
    IF ~value.ok THEN value.error
    ELSE IF skip_whitespace(text, value.next) = Len(text) + 1 THEN value.v
    ELSE JSONDecodeError

\* json.loads(text) at line 173: the value, or the exception it raises
loads(text) ==
    IF At(text, 1) = Chr(65279) THEN JSONDecodeError
    ELSE decode(text, parse_value(text, skip_whitespace(text, 1), DecoderDepth))

\* _extract_json_object ---------------------------------------------------
RECURSIVE scan(_, _, _)
\* The loop of lines 164-175 from position pos with brace_stack at depth: the
\* position where the depth returns to zero, 0 when it never does.
scan(text, pos, depth) ==
    IF pos > Len(text) THEN 0
    ELSE IF text[pos] \in {"{", "["} THEN scan(text, pos + 1, depth + 1)
    ELSE IF text[pos] \in {"}", "]"}
         THEN IF depth - 1 = 0 THEN pos ELSE scan(text, pos + 1, depth - 1)
         ELSE scan(text, pos + 1, depth)

\* Line 160: where the scan starts.
scan_start(text, from) == Find(text, <<"{">>, from)

\* Lines 172-175: the value, None where json.loads raised JSONDecodeError, and
\* the exception itself where it raised another one, which line 174 does not
\* catch.
loaded_or_none(value) == IF value = JSONDecodeError THEN None ELSE value

\* The call raised: its outcome is the exception, which no caller up to main
\* catches.
Uncaught(outcome) == outcome \in LoadErrors

extract_json_object(text, marker) ==
    LET index == Find(text, marker, 1)
        start == scan_start(text, index + Len(marker))
        end == scan(text, start, 0)
    IN  IF index = 0 THEN None
        ELSE IF start = 0 THEN None
        ELSE IF end = 0 THEN None
        ELSE loaded_or_none(loads(SubSeq(text, start, end)))

RECURSIVE first_parsed(_, _)
\* The loop of lines 150-153 over the markers, for one script's content.
first_parsed(content, patterns) ==
    IF patterns = <<>> THEN None
    ELSE LET parsed == extract_json_object(content, Head(patterns))
         IN  IF Uncaught(parsed) \/ parsed # None THEN parsed
             ELSE first_parsed(content, Tail(patterns))

RECURSIVE find_json_in_scripts(_, _)
\* scripts: the contents of the document's script elements, in document order.
find_json_in_scripts(scripts, patterns) ==
    IF scripts = <<>> THEN None
    ELSE LET parsed == IF Head(scripts) = <<>> THEN None
                       ELSE first_parsed(Head(scripts), patterns)
         IN  IF Uncaught(parsed) \/ parsed # None THEN parsed
             ELSE find_json_in_scripts(Tail(scripts), patterns)

\* The markers of lines 131-136 and 140.
YtInitialData == <<"y", "t", "I", "n", "i", "t", "i", "a", "l", "D", "a", "t", "a">>
Assigns == <<" ", "=", " ">>
VarMarker == <<"v", "a", "r", " ">> \o YtInitialData \o Assigns
WindowQuoteMarker ==
    <<"w", "i", "n", "d", "o", "w", "[", "'">> \o YtInitialData \o <<"'", "]">> \o Assigns
WindowDoubleQuoteMarker ==
    <<"w", "i", "n", "d", "o", "w", "[", Quote>> \o YtInitialData \o <<Quote, "]">> \o Assigns
BareMarker == YtInitialData \o Assigns
InitialDataMarkers == <<VarMarker, WindowQuoteMarker, WindowDoubleQuoteMarker, BareMarker>>
ConfigMarkers == << <<"y", "t", "c", "f", "g", ".", "s", "e", "t", "(">> >>

\* ----------------------------------------------------------- the scraper
VARIABLES
    pc,           \* where the scrape call stands
    limit,        \* scrape's argument: None or a number
    html,         \* what _fetch returned for the channel page
    initial_data, \* scrape's local initial_data
    config,       \* scrape's local config
    api_key,      \* self.api_key
    api_context,  \* self.api_context
    server,       \* the browse endpoint: the answer it gives for each token
    tokens,       \* the queue of continuation tokens
    collected,    \* the accumulated entries
    seen_ids,     \* the ids of the accumulated entries
    result,       \* what scrape returned
    error,        \* what scrape raised
    fetched,      \* history: the tokens sent to the browse endpoint, in order
    discovered,   \* history: the tokens queued, in the order they were found
    pages,        \* history: the video ids of the grid and of each page parsed
    exit_code,    \* what main returned: None until it has
    \* a call of _extract_json_object or of _find_json_in_scripts
    scan_pc,         \* the function called, "returned" after it, "idle" without a call
    planted,         \* how each script's content was made: prefix, marker, value, trailing
    script_contents, \* the contents of the script elements, in document order
    markers,         \* the caller's list of markers
    document,        \* what the call returned
    \* a _SoupBuilder (src/bs4/__init__.py)
    nodes,      \* the Tag objects in the order of their creation; nodes[1] is self.root
    current,    \* self.current: a position in nodes; 0 when no builder exists
    events,     \* history: the parser events handled so far
    unmatched,  \* history: a close tag matched no node of the path, and nothing was appended since
    \* a call of one of the helpers _find_value and _parse_video_renderer
    helper_pc,  \* the helper called, "returned" after it, "idle" without a call
    argument,   \* the node or the renderer it is called with
    returned    \* what it returned

scraper_vars ==
    <<pc, limit, html, initial_data, config, api_key, api_context, server,
      tokens, collected, seen_ids, result, error, fetched, discovered, pages,
      exit_code>>
scan_vars == <<scan_pc, planted, script_contents, markers, document>>
soup_vars == <<nodes, current, events, unmatched>>
helper_vars == <<helper_pc, argument, returned>>
outside_scraper == <<scan_vars, soup_vars, helper_vars>>
outside_scan == <<scraper_vars, soup_vars, helper_vars>>
outside_soup == <<scraper_vars, scan_vars, helper_vars>>
outside_helpers == <<scraper_vars, scan_vars, soup_vars>>
vars == <<scraper_vars, scan_vars, soup_vars, helper_vars>>

NoError == [type |-> "none", at |-> "none"]
Raised(type, at) == [type |-> type, at |-> at]

\* A token that is handed out again is fetched again, and where the pages hand
\* tokens out in a cycle the loop of lines 221-237 never ends: the requests of
\* one call are counted up to the most a loop that ends can send.  With the two
\* tokens such a loop fetches one of them g times and the other g * k times,
\* for g items that hold the first and k that hold the second on its page, and
\* g + k is at most MaxItems.
MaxFetches == ((MaxItems + 1) \div 2) * ((MaxItems + 1) - ((MaxItems + 1) \div 2))

Ids(entries) == [i \in 1..Len(entries) |-> entries[i].video_id]
Range(seq) == {seq[i] : i \in 1..Len(seq)}

\* No call of the scan functions is under way.
ScanIdle ==
    /\ scan_pc = "idle"
    /\ planted = <<>>
    /\ script_contents = <<>>
    /\ markers = <<>>
    /\ document = None

\* No tree builder exists.
SoupIdle ==
    /\ nodes = <<>>
    /\ current = 0
    /\ events = <<>>
    /\ unmatched = FALSE

\* No helper is called on its own.
HelperIdle ==
    /\ helper_pc = "idle"
    /\ argument = None
    /\ returned = None

Init ==
    /\ ScanIdle
    /\ SoupIdle
    /\ HelperIdle
    /\ pc = "start"
    /\ limit \in Limits
    /\ html = None
    /\ initial_data = None
    /\ config = None
    /\ api_key = None
    /\ api_context = None
    /\ server = NoServer
    /\ tokens = <<>>
    /\ collected = <<>>
    /\ seen_ids = {}
    /\ result = <<>>
    /\ error = NoError
    /\ fetched = <<>>
    /\ discovered = <<>>
    /\ pages = <<>>
    /\ exit_code = None

\* scrape, line 89: html = self._fetch(self.channel_url)
FetchPage ==
    /\ pc = "start"
    /\ \E response \in {HTTPError, URLError} \cup Htmls :
          IF response \in {HTTPError, URLError}
          THEN /\ pc' = "failed"
               /\ error' = Raised(response.t, "_fetch")
               /\ html' = html
          ELSE /\ pc' = "fetched"
               /\ error' = error
               /\ html' = response
    /\ UNCHANGED <<limit, initial_data, config, api_key, api_context, server, tokens,
                   collected, seen_ids, result, fetched, discovered, pages, exit_code>>
    /\ UNCHANGED outside_scraper

\* What _find_json_in_scripts returns for the state markers and for the
\* configuration marker.
extract_bootstrap_data(page) ==
    IF page.ytInitialData = None
    THEN [raised |-> TRUE, initial_data |-> None, config |-> None]
    ELSE IF page.ytcfg = None
         THEN [raised |-> TRUE, initial_data |-> page.ytInitialData, config |-> None]
         ELSE [raised |-> FALSE, initial_data |-> page.ytInitialData, config |-> page.ytcfg]

\* scrape, line 90
ExtractBootstrapData ==
    /\ pc = "fetched"
    /\ LET data == extract_bootstrap_data(html)
       IN  IF data.raised
           THEN /\ pc' = "failed"
                /\ error' = Raised("RuntimeError", "_extract_bootstrap_data")
                /\ UNCHANGED <<initial_data, config>>
           ELSE /\ pc' = "bootstrapped"
                /\ initial_data' = data.initial_data
                /\ config' = data.config
                /\ error' = error
    /\ UNCHANGED <<limit, html, api_key, api_context, server, tokens, collected,
                   seen_ids, result, fetched, discovered, pages, exit_code>>
    /\ UNCHANGED outside_scraper

\* prepare_api without the type checks of line 181
prepare_api_unchecked(cfg) ==
    [raised |-> FALSE,
     api_key |-> Get(cfg, "INNERTUBE_API_KEY"),
     api_context |-> Get(cfg, "INNERTUBE_CONTEXT")]

prepare_api(cfg) ==
    LET key == Get(cfg, "INNERTUBE_API_KEY")
        context == Get(cfg, "INNERTUBE_CONTEXT")
    IN  IF ~IsStr(key) \/ ~IsDict(context)
        THEN [raised |-> TRUE, api_key |-> None, api_context |-> None]
        ELSE [raised |-> FALSE, api_key |-> key, api_context |-> context]

\* scrape, line 91
PrepareApi ==
    /\ pc = "bootstrapped"
    /\ LET prepared == prepare_api(config)
       IN  IF prepared.raised
           THEN /\ pc' = "failed"
                /\ error' = Raised("RuntimeError", "_prepare_api")
                /\ UNCHANGED <<api_key, api_context>>
           ELSE /\ pc' = "configured"
                /\ api_key' = prepared.api_key
                /\ api_context' = prepared.api_context
                /\ error' = error
    /\ UNCHANGED <<limit, html, initial_data, config, server, tokens, collected,
                   seen_ids, result, fetched, discovered, pages, exit_code>>
    /\ UNCHANGED outside_scraper

\* scrape, line 96: collected = videos
initial_collected(videos) == videos

\* The endpoint's answer for a token is fixed when the token is first found
\* (nothing reads it earlier), and stays the same however often it is fetched.
Discover(known, grid_contents, found) ==
    Answers(known, {t \in Range(found) : known[t] = Unused},
            MaxItems - Len(grid_contents) - ItemCount(known, Tokens))

\* scrape, lines 93-97
ExtractInitialGrid ==
    /\ pc = "configured"
    /\ LET grid_contents == extract_initial_grid(initial_data)
           grid == extract_videos_from_grid(grid_contents.v)
       IN  IF ~IsList(grid_contents)
           THEN /\ pc' = "failed"
                /\ error' = Raised(grid_contents.t, "_extract_initial_grid")
                /\ UNCHANGED <<server, tokens, collected, seen_ids, discovered, pages>>
           ELSE /\ pc' = "crawling"
                /\ collected' = initial_collected(grid.videos)
                /\ seen_ids' = Range(Ids(grid.videos))
                /\ tokens' = grid.tokens
                /\ discovered' = grid.tokens
                /\ pages' = <<Ids(grid.videos)>>
                /\ server' \in Discover(NoServer, grid_contents.v, grid.tokens)
                /\ error' = error
    /\ UNCHANGED <<limit, html, initial_data, config, api_key, api_context, result,
                   fetched, exit_code>>
    /\ UNCHANGED outside_scraper

\* _fetch_continuation, line 240: the configuration check before the request
configured(key, context) == Truthy(key) /\ Truthy(context)

\* _iterate_continuations, line 234
limit_reached(entries, lim) == lim # None /\ Len(entries) >= lim.v

RECURSIVE collect_new(_, _, _, _)
\* _iterate_continuations, lines 229-235: [returned |-> whether the limit ended
\* the generator, collected, seen_ids]
collect_new(videos, entries, seen, lim) ==
    IF videos = <<>>
    THEN [returned |-> FALSE, collected |-> entries, seen_ids |-> seen]
    ELSE LET entry == Head(videos)
             more == Append(entries, entry)
             ids == seen \cup {entry.video_id}
         IN  IF entry.video_id \in seen
             THEN collect_new(Tail(videos), entries, seen, lim)
             ELSE IF limit_reached(more, lim)
                  THEN [returned |-> TRUE, collected |-> more, seen_ids |-> ids]
                  ELSE collect_new(Tail(videos), more, ids, lim)

\* tokens.pop(0): what stays queued
pop_rest(queue) == Tail(queue)

\* new tokens put in front of the queue
extend_in_front(queue, new_tokens) == new_tokens \o queue

\* tokens.extend(new_tokens)
extend(queue, new_tokens) == queue \o new_tokens

\* scrape, lines 101-102: what the consumer does with a yielded value
breaks_on(yielded) == yielded = None

\* One iteration of the loop of _iterate_continuations, with what scrape's for
\* loop does with the value it yields.
IterateContinuations ==
    /\ pc = "crawling"
    /\ tokens # <<>>
    /\ Len(fetched) < MaxFetches
    /\ LET token == Head(tokens)
           response == server[token]
           items == find_value(response, "continuationItems")
           grid == extract_videos_from_grid(items.v)
           step == collect_new(grid.videos, collected, seen_ids, limit)
       IN  IF ~configured(api_key, api_context)
           THEN /\ pc' = "failed"
                /\ error' = Raised("RuntimeError", "_fetch_continuation")
                /\ tokens' = pop_rest(tokens)
                /\ UNCHANGED <<collected, seen_ids, fetched, discovered, pages, server>>
           ELSE IF response = HTTPError
           THEN /\ pc' = "failed"
                /\ error' = Raised("HTTPError", "_fetch_continuation")
                /\ tokens' = pop_rest(tokens)
                /\ fetched' = Append(fetched, token)
                /\ UNCHANGED <<collected, seen_ids, discovered, pages, server>>
           ELSE IF ~IsList(items)
           THEN /\ pc' = IF breaks_on(None) THEN "finishing" ELSE "crawling"
                /\ tokens' = pop_rest(tokens)
                /\ fetched' = Append(fetched, token)
                /\ UNCHANGED <<collected, seen_ids, discovered, pages, error, server>>
           ELSE /\ fetched' = Append(fetched, token)
                /\ pages' = Append(pages, Ids(grid.videos))
                /\ collected' = step.collected
                /\ seen_ids' = step.seen_ids
                /\ error' = error
                /\ IF step.returned
                   THEN /\ pc' = "finishing"
                        /\ tokens' = pop_rest(tokens)
                        /\ discovered' = discovered
                        /\ server' = server
                   ELSE /\ pc' = IF breaks_on(JStr(token)) THEN "finishing" ELSE "crawling"
                        /\ tokens' = extend(pop_rest(tokens), grid.tokens)
                        /\ discovered' = discovered \o grid.tokens
                        /\ server' \in Discover(server, extract_initial_grid(initial_data).v,
                                                grid.tokens)
    /\ UNCHANGED <<limit, html, initial_data, config, api_key, api_context, result,
                   exit_code>>
    /\ UNCHANGED outside_scraper

\* the accumulated entries returned as they are
returned_list_uncut(entries, lim) == entries

\* scrape, lines 104-106: collected[:limit], which counts a negative limit from
\* the end of the list
returned_list(entries, lim) ==
    IF lim # None
    THEN IF lim.v < 0
         THEN SubSeq(entries, 1, Len(entries) + lim.v)
         ELSE SubSeq(entries, 1, IF Len(entries) < lim.v THEN Len(entries) ELSE lim.v)
    ELSE entries

\* The loop is over (the queue is empty, the generator returned or scrape broke
\* out of it) and scrape returns.
Return ==
    /\ \/ pc = "finishing"
       \/ pc = "crawling" /\ tokens = <<>>
    /\ pc' = "done"
    /\ result' = returned_list(collected, limit)
    /\ UNCHANGED <<limit, html, initial_data, config, api_key, api_context, server,
                   tokens, collected, seen_ids, error, fetched, discovered, pages,
                   exit_code>>
    /\ UNCHANGED outside_scraper

\* every failure mapped to the one code
main_exit_code_uniform(state, raised) == IF state = "done" THEN 0 ELSE 1

\* main, lines 366-383: the exit code for how scrape ended
main_exit_code(state, raised) ==
    IF state = "done" THEN 0
    ELSE IF raised.type \in {"HTTPError", "URLError"} THEN 2
    ELSE 1

\* main returns once scrape has returned or raised.
Main ==
    /\ pc \in {"done", "failed"}
    /\ exit_code = None
    /\ exit_code' = JNum(main_exit_code(pc, error))
    /\ UNCHANGED <<pc, limit, html, initial_data, config, api_key, api_context, server,
                   tokens, collected, seen_ids, result, error, fetched, discovered,
                   pages>>
    /\ UNCHANGED outside_scraper

Next ==
    \/ FetchPage
    \/ ExtractBootstrapData
    \/ PrepareApi
    \/ ExtractInitialGrid
    \/ IterateContinuations
    \/ Return
    \/ Main

Spec == Init /\ [][Next]_vars

\* ------------------------------------------------- scrape as one function
\* What a call gives for a channel page and the endpoint's answers: whether it
\* returned (it did not when it raised), the list it returned and the number of
\* requests it sent.  Where the endpoint hands out tokens in a cycle the loop
\* of the code does not end, and neither does the evaluation.
Raises(sent) == [returned |-> FALSE, result |-> <<>>, fetches |-> sent]
Returns(entries, lim, sent) ==
    [returned |-> TRUE, result |-> returned_list(entries, lim), fetches |-> sent]

RECURSIVE iterate_continuations(_, _, _, _, _, _, _)
\* The loop of _iterate_continuations as scrape's for loop drives it, from a
\* queue, the accumulated entries and their ids, after sent requests.
iterate_continuations(usable, answers, queue, entries, seen, lim, sent) ==
    IF queue = <<>> THEN Returns(entries, lim, sent)
    ELSE
      LET token == Head(queue)
          response == answers[token]
          items == find_value(response, "continuationItems")
          grid == extract_videos_from_grid(items.v)
          step == collect_new(grid.videos, entries, seen, lim)
      IN  IF ~usable THEN Raises(sent)
          ELSE IF response \in {HTTPError, Unused} THEN Raises(sent + 1)
          ELSE IF ~IsList(items)
          THEN IF breaks_on(None) THEN Returns(entries, lim, sent + 1)
               ELSE iterate_continuations(usable, answers, pop_rest(queue), entries,
                                          seen, lim, sent + 1)
          ELSE IF step.returned \/ breaks_on(JStr(token))
          THEN Returns(step.collected, lim, sent + 1)
          ELSE iterate_continuations(usable, answers,
                                     extend(pop_rest(queue), grid.tokens),
                                     step.collected, step.seen_ids, lim, sent + 1)

\* scrape, lines 89-97: what the page gives before the loop, [raised |-> TRUE]
\* where one of the steps raised
bootstrap(page) ==
    LET data == extract_bootstrap_data(page)
        prepared == prepare_api(data.config)
        grid_contents == extract_initial_grid(data.initial_data)
        grid == extract_videos_from_grid(grid_contents.v)
    IN  IF page \in {HTTPError, URLError} THEN [raised |-> TRUE]
        ELSE IF data.raised THEN [raised |-> TRUE]
        ELSE IF prepared.raised THEN [raised |-> TRUE]
        ELSE IF ~IsList(grid_contents) THEN [raised |-> TRUE]
        ELSE [raised |-> FALSE,
              usable |-> configured(prepared.api_key, prepared.api_context),
              videos |-> grid.videos,
              tokens |-> grid.tokens]

\* scrape, lines 96-106: the loop and the return
crawl(start, answers, lim) ==
    IF start.raised THEN Raises(0)
    ELSE iterate_continuations(start.usable, answers, start.tokens,
                               initial_collected(start.videos),
                               Range(Ids(start.videos)), lim, 0)

\* scrape(limit=lim) for a channel page and the endpoint's answers
scrape(page, answers, lim) == crawl(bootstrap(page), answers, lim)

\* --------------------------------------------- calls of the scan functions
\* No scrape call is under way.
ScraperIdle ==
    /\ pc = "idle"
    /\ limit = None
    /\ html = None
    /\ initial_data = None
    /\ config = None
    /\ api_key = None
    /\ api_context = None
    /\ server = NoServer
    /\ tokens = <<>>
    /\ collected = <<>>
    /\ seen_ids = {}
    /\ result = <<>>
    /\ error = NoError
    /\ fetched = <<>>
    /\ discovered = <<>>
    /\ pages = <<>>
    /\ exit_code = None

\* The texts of JSON values, written without whitespace.
StringText(chars) == <<Quote>> \o chars \o <<Quote>>
ObjectText(key, value) == <<"{">> \o StringText(<<key>>) \o <<":">> \o value \o <<"}">>
ArrayText(first, second) == <<"[">> \o first \o <<",">> \o second \o <<"]">>

\* Objects: plain, nested, with a string value that holds brace or bracket
\* characters or an escaped quote, with a literal, with a line feed in front of
\* a number, with a character beyond ASCII as the key and its escape as the
\* value, and with a float below the range.
ObjectTexts ==
    { ObjectText("a", <<"1">>),
      ObjectText("a", ArrayText(<<"1">>, ObjectText("b", <<"2">>))),
      ObjectText("a", StringText(<<"{", "}">>)),
      ObjectText("a", StringText(<<"}">>)),
      ObjectText("a", StringText(<<"{">>)),
      ObjectText("a", StringText(<<"]">>)),
      ObjectText("a", StringText(<<Backslash, Quote>>)),
      ObjectText("a", <<"t", "r", "u", "e">>),
      ObjectText("a", <<"\n", "1", "0">>),
      ObjectText(Chr(233), StringText(<<Backslash, "u", "0", "0", "e", "9">>)),
      ObjectText("a", <<"1", "e", "-", "4", "0", "0">>),
      <<"{", "}">> }

\* Arrays: of scalars, and with an object inside.
ArrayTexts ==
    { ArrayText(<<"1">>, <<"2">>),
      ArrayText(ObjectText("a", <<"1">>), ObjectText("b", <<"2">>)) }

\* What may stand in front of the marker and behind the value.
Prefixes == {<<>>, <<"x", ";">>}
Trailings ==
    { <<>>,
      <<";">>,
      <<")", ";">>,
      <<";", "x", " ", "=", " ">> \o ObjectText("b", <<"1">>) \o <<";">> }

AllMarkers == Range(InitialDataMarkers) \cup Range(ConfigMarkers)

Plantings ==
    [prefix : Prefixes, marker : AllMarkers, value : ObjectTexts \cup ArrayTexts,
     trailing : Trailings]

\* The scripts of a channel page: one value behind one of the markers each.
PagePlantings ==
    [prefix : {<<>>}, marker : Range(InitialDataMarkers),
     value : {ObjectText("a", <<"1">>), ObjectText("b", <<"2">>),
              ObjectText("a", ArrayText(<<"1">>, ObjectText("b", <<"2">>)))},
     trailing : {<<";">>}]

TextOf(planting) ==
    planting.prefix \o planting.marker \o planting.value \o planting.trailing

ScanInit ==
    /\ ScraperIdle
    /\ SoupIdle
    /\ HelperIdle
    /\ document = None
    /\ \/ /\ scan_pc = "_extract_json_object"
          /\ \E planting \in Plantings :
                /\ planted = <<planting>>
                /\ script_contents = <<TextOf(planting)>>
                /\ markers = <<planting.marker>>
       \/ /\ scan_pc = "_find_json_in_scripts"
          /\ \E first \in PagePlantings, second \in PagePlantings :
                /\ planted = <<first, second>>
                /\ script_contents = <<TextOf(first), TextOf(second)>>
          /\ markers = InitialDataMarkers

\* _extract_json_object(text, marker)
ExtractJsonObject ==
    /\ scan_pc = "_extract_json_object"
    /\ document' = extract_json_object(script_contents[1], markers[1])
    /\ scan_pc' = "returned"
    /\ UNCHANGED <<planted, script_contents, markers>>
    /\ UNCHANGED outside_scan

\* _find_json_in_scripts(soup, patterns)
FindJsonInScripts ==
    /\ scan_pc = "_find_json_in_scripts"
    /\ document' = find_json_in_scripts(script_contents, markers)
    /\ scan_pc' = "returned"
    /\ UNCHANGED <<planted, script_contents, markers>>
    /\ UNCHANGED outside_scan

ScanNext ==
    \/ ExtractJsonObject
    \/ FindJsonInScripts

ScanSpec == ScanInit /\ [][ScanNext]_vars

\* ------------------------------------------------------- the tree builder
\* A Tag: its name, its attributes, the position of its parent in nodes (0 for
\* None) and its children, each a Tag (by position) or a string.
Tag(name, attrs, parent) ==
    [name |-> name, attrs |-> attrs, parent |-> parent, children |-> <<>>]
TagChild(ref) == [kind |-> "tag", ref |-> ref, text |-> ""]
TextChild(data) == [kind |-> "text", ref |-> 0, text |-> data]

DocumentName == "[document]"
TagNames == {"div", "script"}
\* The attribute lists the parser hands over: none, one without a value, and
\* one that gives a name twice.
AttrLists == {<<>>, << <<"async", None>> >>,
              << <<"id", JStr("a")>>, <<"src", JStr("")>>, <<"id", None>> >>}
Datas == {"", "x"}

RECURSIVE attributes_from(_, _)
\* The dict comprehension of line 127 behind the entries it has made: a name
\* has one entry, at the place of its first pair and with the value of its last.
attributes_from(entries, attrs) ==
    IF attrs = <<>> THEN entries
    ELSE attributes_from(Put(entries, attrs[1][1],
                             IF Truthy(attrs[1][2]) THEN attrs[1][2] ELSE JStr("")),
                         Tail(attrs))

\* {k: v or "" for k, v in attrs}
attributes_of(attrs) == attributes_from(<<>>, attrs)

\* Tag.append with the assignment of line 40 turned round: self.parent = child
append_swapped(tree, at, child) ==
    LET linked == IF child.kind = "tag"
                  THEN [tree EXCEPT ![at].parent = child.ref]
                  ELSE tree
    IN  [linked EXCEPT ![at].children = Append(@, child)]

\* Tag.append(child), for the Tag at position at
append(tree, at, child) ==
    LET linked == IF child.kind = "tag"
                  THEN [tree EXCEPT ![child.ref].parent = at]
                  ELSE tree
    IN  [linked EXCEPT ![at].children = Append(@, child)]

SoupInit ==
    /\ ScraperIdle
    /\ ScanIdle
    /\ HelperIdle
    /\ nodes = <<Tag(DocumentName, <<>>, 0)>>
    /\ current = 1
    /\ events = <<>>
    /\ unmatched = FALSE

HandleStartTag ==
    /\ current # 0
    /\ Len(events) < MaxEvents
    /\ \E tag \in TagNames, attrs \in AttrLists :
          LET new_tag == Tag(tag, attributes_of(attrs), current)
              created == Append(nodes, new_tag)
          IN  /\ nodes' = append(created, current, TagChild(Len(created)))
              /\ current' = Len(created)
              /\ events' = Append(events, [kind |-> "start", tag |-> tag])
    /\ unmatched' = FALSE
    /\ UNCHANGED outside_soup

RECURSIVE climb(_, _, _)
\* The loop of lines 134-135: the nearest node named tag from cursor upwards, 0
\* (None) when the walk passes the root.
climb(tree, cursor, tag) ==
    IF cursor # 0 /\ tree[cursor].name # tag
    THEN climb(tree, tree[cursor].parent, tag)
    ELSE cursor

\* a close tag that is only obeyed when a node of the path matches it
handle_endtag_ignoring(tree, cur, tag) ==
    LET cursor == climb(tree, cur, tag)
    IN  IF cursor # 0 /\ tree[cursor].parent # 0 THEN tree[cursor].parent ELSE cur

\* a close tag that makes the matching node itself the current node
handle_endtag_staying(tree, cur, tag) ==
    LET cursor == climb(tree, cur, tag)
    IN  IF cursor # 0 /\ tree[cursor].parent # 0 THEN cursor ELSE 1

\* handle_endtag: the new self.current
handle_endtag(tree, cur, tag) ==
    LET cursor == climb(tree, cur, tag)
    IN  IF cursor # 0 /\ tree[cursor].parent # 0 THEN tree[cursor].parent ELSE 1

RECURSIVE PathFrom(_, _)
\* The nodes from a node up to the root, the node first.
PathFrom(tree, node) ==
    IF node = 0 THEN <<>> ELSE <<node>> \o PathFrom(tree, tree[node].parent)

HandleEndTag ==
    /\ current # 0
    /\ Len(events) < MaxEvents
    /\ \E tag \in TagNames :
          /\ current' = handle_endtag(nodes, current, tag)
          /\ events' = Append(events, [kind |-> "end", tag |-> tag])
          /\ unmatched' = (\A n \in Range(PathFrom(nodes, current)) : nodes[n].name # tag)
    /\ nodes' = nodes
    /\ UNCHANGED outside_soup

HandleData ==
    /\ current # 0
    /\ Len(events) < MaxEvents
    /\ \E data \in Datas :
          /\ nodes' = IF data # "" THEN append(nodes, current, TextChild(data)) ELSE nodes
          /\ events' = Append(events, [kind |-> "data", tag |-> data])
    /\ unmatched' = (unmatched /\ nodes' = nodes)
    /\ current' = current
    /\ UNCHANGED outside_soup

SoupNext ==
    \/ HandleStartTag
    \/ HandleEndTag
    \/ HandleData

SoupSpec == SoupInit /\ [][SoupNext]_vars

\* ------------------------------------------------------ calls of the helpers
\* Nested structures of mappings, sequences and scalars, by depth.
Scalars == {None, JNum(1), JNum(2)}
Keys == {"k", "x"}
KeyLists == {<<>>} \cup {<<key>> : key \in Keys}
                \cup {keys \in Keys \X Keys : keys[1] # keys[2]}

ListsOf(values) == {JList(<<>>)} \cup {JList(<<v>>) : v \in values}
                       \cup {JList(<<v, w>>) : v \in values, w \in values}
DictsOf(values) ==
    UNION { {JDict([i \in 1..Len(keys) |-> <<keys[i], vs[i]>>]) : vs \in [1..Len(keys) -> values]}
            : keys \in KeyLists }

Flat == Scalars \cup ListsOf(Scalars) \cup DictsOf(Scalars)

\* Deeper structures, in which mappings that hold the searched key lie at
\* different depths and in mappings of two values.  The mappings that hold the
\* key: each with one of the scalars under it, and one with null under it and
\* a mapping that holds the key among its values.
Holding ==
    {JDict(<< <<"k", v>> >>) : v \in Scalars}
        \cup {JDict(<< <<"k", None>>, <<"x", JDict(<< <<"k", JNum(2)>> >>)>> >>)}
\* One of them, bare or as the element of a sequence or as a value of a mapping
\* without the key.
Wrapped ==
    Holding \cup {JList(<<h>>) : h \in Holding}
        \cup {JDict(<< <<"x", h>> >>) : h \in Holding}
        \cup {JDict(<< <<"x", g>>, <<"y", h>> >>) : g \in Holding, h \in Holding}
Deep ==
    {JList(<<g, h>>) : g \in Wrapped, h \in Wrapped}
        \cup {JDict(<< <<"x", g>>, <<"y", h>> >>) : g \in Wrapped, h \in Wrapped}

Structures == Flat \cup ListsOf(Flat) \cup DictsOf(Flat) \cup Deep

\* What a text field of a video renderer may hold.
Runs == JList(<<JDict(<< <<"text", JStr("r")>> >>), JDict(<< <<"text", JStr("s")>> >>)>>)
TextNodes ==
    { None,
      JStr("plain"),
      JDict(<<>>),
      JDict(<< <<"simpleText", JStr("simple")>> >>),
      JDict(<< <<"runs", Runs>> >>),
      JDict(<< <<"simpleText", JStr("simple")>>, <<"runs", Runs>> >>) }

\* A video renderer with the three text fields; a field that holds None is left out.
Renderer(title, view_count, published) ==
    JDict(<< <<"videoId", JStr("a")>> >>
          \o (IF title = None THEN <<>> ELSE << <<"title", title>> >>)
          \o (IF view_count = None THEN <<>> ELSE << <<"viewCountText", view_count>> >>)
          \o (IF published = None THEN <<>> ELSE << <<"publishedTimeText", published>> >>))
Renderers ==
    {Renderer(title, view_count, published) :
        title \in TextNodes, view_count \in TextNodes, published \in TextNodes}

\* Renderers whose video id holds characters that urljoin treats, and one
\* whose id holds a character beyond ASCII.
UrlRenderers ==
    {JDict(<< <<"videoId", JStr(id)>> >>) :
        id \in {"#", "a#", "a#b", "a\tb", Chr(233) \o "#"}}

SearchedKey == "k"

HelperInit ==
    /\ ScraperIdle
    /\ ScanIdle
    /\ SoupIdle
    /\ returned = None
    /\ \/ helper_pc = "_find_value" /\ argument \in Structures
       \/ helper_pc = "_parse_video_renderer" /\ argument \in Renderers \cup UrlRenderers

\* _find_value(node, key)
FindValue ==
    /\ helper_pc = "_find_value"
    /\ returned' = find_value(argument, SearchedKey)
    /\ helper_pc' = "returned_value"
    /\ argument' = argument
    /\ UNCHANGED outside_helpers

\* _parse_video_renderer(renderer)
ParseVideoRenderer ==
    /\ helper_pc = "_parse_video_renderer"
    /\ returned' = parse_video_renderer(argument)
    /\ helper_pc' = "returned_entry"
    /\ argument' = argument
    /\ UNCHANGED outside_helpers

HelperNext ==
    \/ FindValue
    \/ ParseVideoRenderer

HelperSpec == HelperInit /\ [][HelperNext]_vars

\* ------------------------------------------------------------ the claims
Terminal == pc \in {"done", "failed"}

\* A token was handed out (queued) more than once.
Reissued == Cardinality(Range(discovered)) < Len(discovered)

Count(seq, x) == Cardinality({i \in 1..Len(seq) : seq[i] = x})

RECURSIVE Flatten(_)
Flatten(seqs) == IF seqs = <<>> THEN <<>> ELSE Head(seqs) \o Flatten(Tail(seqs))

RECURSIVE FirstOccurrences(_)
\* seq with every element kept at its first occurrence only
FirstOccurrences(seq) ==
    IF seq = <<>> THEN <<>>
    ELSE LET front == FirstOccurrences(SubSeq(seq, 1, Len(seq) - 1))
             last == seq[Len(seq)]
         IN  IF last \in Range(front) THEN front ELSE Append(front, last)

FirstIndex(seq, x) == CHOOSE i \in 1..Len(seq) : seq[i] = x /\ \A j \in 1..(i - 1) : seq[j] # x

\* The grid of the channel page, once it has been located.
InitialGrid == extract_initial_grid(initial_data).v

RECURSIVE Closure(_)
\* The tokens reachable from a set of tokens through the pages of the server.
Closure(set) ==
    LET more == set \cup UNION {TokenSet(ItemsOf(server[t])) : t \in set}
    IN  IF more = set THEN set ELSE Closure(more)

ReachableTokens == Closure(TokenSet(InitialGrid))
ReachableIds ==
    IdSet(InitialGrid) \cup UNION {IdSet(ItemsOf(server[t])) : t \in ReachableTokens}
NoFetchFails == \A t \in ReachableTokens : server[t] # HTTPError

\* The answer to token t carries no continuation items.
EmptyPage(t) == server[t] = EmptyResponse

\* C1 (as claimed): a call without a limit, none of whose fetches fails,
\* returns an entry for every video id of the grid and of every page reachable
\* through continuation tokens, and has fetched every such token.
C1_Completeness ==
    (pc = "done" /\ limit = None /\ NoFetchFails)
        => /\ ReachableIds \subseteq Range(Ids(result))
           /\ ReachableTokens \subseteq Range(fetched)

\* C2 (as claimed): the returned list never holds two entries with the same
\* video id.
C2_Uniqueness ==
    pc = "done"
        => \A i, j \in 1..Len(result) :
               i # j => result[i].video_id # result[j].video_id

\* The ids that appear on more than one page (the grid counts as a page).
AcrossPages ==
    {id \in VideoIds : Cardinality({i \in 1..Len(pages) : id \in Range(pages[i])}) > 1}

\* C3 (as claimed): without a limit, an id that appears on more than one page
\* has exactly one entry in the result, at the position of its first
\* occurrence, and the result follows page order and item order.
C3_FirstOccurrence ==
    (pc = "done" /\ limit = None)
        => /\ \A id \in AcrossPages :
                  /\ Count(Ids(result), id) = 1
                  /\ FirstIndex(Ids(result), id)
                         = FirstIndex(FirstOccurrences(Flatten(pages)), id)
           /\ FirstOccurrences(Ids(result)) = FirstOccurrences(Flatten(pages))

\* C4 (as claimed): with a limit N the returned list never has more than N
\* entries, and has exactly N when the grid and the reachable pages hold more
\* than N distinct video ids.
C4_LimitCount ==
    (pc = "done" /\ limit # None)
        => /\ Len(result) <= limit.v
           /\ (NoFetchFails /\ Cardinality(ReachableIds) > limit.v)
                  => Len(result) = limit.v

\* C5 (as claimed): once the accumulated entries number at least the limit, no
\* further request goes to the browse endpoint.
C5_LimitStopsFetching ==
    [][(limit # None /\ pc = "crawling" /\ Len(collected) >= limit.v)
           => fetched' = fetched]_vars

\* C6 (as claimed): after a page without continuation items, in a call without
\* a limit that did not fail and was handed no token twice, every token that
\* was queued has been fetched by the time the call returns.
C6_EmptyPageTolerance ==
    (pc = "done" /\ limit = None /\ ~Reissued
         /\ \E i \in 1..Len(fetched) : EmptyPage(fetched[i]))
        => tokens = <<>>

\* C7 (as claimed): no token is sent to the browse endpoint a second time.
C7_FetchedOnce ==
    \A i, j \in 1..Len(fetched) : i # j => fetched[i] # fetched[j]

\* C8: tokens are fetched in the order in which they were found: the requests
\* sent are a prefix of the tokens found, and while the crawl runs the queue
\* holds exactly the tokens found and not yet sent, in that order.
C8_FifoOrder ==
    /\ Len(fetched) <= Len(discovered)
    /\ \A i \in 1..Len(fetched) : fetched[i] = discovered[i]
    /\ pc = "crawling" => discovered = fetched \o tokens

\* Three requests went out, the third for a token found on a fetched page.
C8_Witness ==
    /\ pc = "done"
    /\ Len(fetched) = 3
    /\ fetched[1] # fetched[2]
    /\ Len(pages) = 4
    /\ fetched[3] \notin Range(extract_videos_from_grid(
                                   extract_initial_grid(initial_data).v).tokens)

Stage ==
    CASE pc = "start" -> 6
      [] pc = "fetched" -> 5
      [] pc = "bootstrapped" -> 4
      [] pc = "configured" -> 3
      [] pc = "crawling" -> 2
      [] pc = "finishing" -> 1
      [] OTHER -> 0

\* What is left to do when no token is handed out twice: the stages ahead, the
\* tokens queued, the tokens not yet handed out and main's return.
Variant ==
    Stage + Len(tokens) + Cardinality(Tokens \ Range(discovered))
        + (IF exit_code = None THEN 1 ELSE 0)

\* C9 (as claimed): when no token is handed out twice the call ends.  Every
\* step takes the call closer to its end: the measure of what is left strictly
\* decreases; the loop is left by the step after which the entries number at
\* least the limit, be it that the step's new entry reaches the limit or that
\* the limit was reached before the step; a crawl step removes the token it
\* fetches from the queue and the loop goes on only while the queue holds a
\* token; and the call is never held where it still has a token to fetch.
C9_Termination ==
    /\ [][Reissued' \/ Variant' < Variant]_vars
    /\ [][(pc = "crawling" /\ limit # None /\ Len(collected') >= limit.v)
              => pc' # "crawling"]_vars
    /\ [][(pc = "crawling" /\ pc' # "done")
              => /\ tokens # <<>>
                 /\ Len(tokens') >= Len(tokens) - 1
                 /\ SubSeq(tokens', 1, Len(tokens) - 1) = Tail(tokens)]_vars
    /\ []((pc = "crawling" /\ tokens # <<>> /\ ~Reissued) => Len(fetched) < MaxFetches)

BootstrapSteps ==
    {"_fetch", "_extract_bootstrap_data", "_prepare_api", "_extract_initial_grid"}

\* C10: a request to the browse endpoint is only issued after the channel page
\* was fetched, both documents were extracted, a string key and a mapping
\* context were derived and the grid was located; a call that fails in one of
\* these steps has issued no browse request.
C10_ConfigurationPrecedesPagination ==
    /\ fetched # <<>>
           => /\ html # None
              /\ initial_data # None /\ initial_data = html.ytInitialData
              /\ config # None /\ config = html.ytcfg
              /\ IsStr(api_key) /\ api_key = Get(config, "INNERTUBE_API_KEY")
              /\ IsDict(api_context) /\ api_context = Get(config, "INNERTUBE_CONTEXT")
              /\ IsList(extract_initial_grid(initial_data))
    /\ error.at \in BootstrapSteps => (pc = "failed" /\ fetched = <<>>)

\* Browse requests were issued by a call that went through every step.
C10_Witness ==
    /\ Len(fetched) >= 2
    /\ pc = "done"

\* A failure of the transport: what urllib raises for a request that failed.
TransportFailure == error.type \in {"HTTPError", "URLError"}

\* C11: a transport failure ends the call: scrape raises it and returns no
\* list, the step that failed is the last request (the page is not fetched
\* again, no token is sent after it, the failed token is not queued again), and
\* main exits with a code that is not zero and differs from the code of every
\* other failure.
C11_TransportFailureIsFatal ==
    /\ [](TransportFailure
              => /\ pc = "failed"
                 /\ result = <<>>
                 /\ error.at = "_fetch" => (html = None /\ fetched = <<>>)
                 /\ error.at = "_fetch_continuation"
                        => (fetched # <<>> /\ server[fetched[Len(fetched)]] = HTTPError
                            /\ Count(fetched, fetched[Len(fetched)])
                                   + Count(tokens, fetched[Len(fetched)])
                                   = Count(discovered, fetched[Len(fetched)])))
    /\ [][TransportFailure
              => (fetched' = fetched /\ html' = html /\ tokens' = tokens
                  /\ pc' = pc /\ error' = error)]_vars
    /\ [](exit_code # None
              => /\ TransportFailure => (exit_code.v # 0 /\ exit_code.v = 2)
                 /\ (pc = "failed" /\ ~TransportFailure)
                        => (exit_code.v # 0 /\ exit_code.v # 2)
                 /\ pc = "done" => exit_code.v = 0)

\* main has exited after a continuation request failed, and other calls have
\* ended in a failure of another kind.
C11_Witness ==
    /\ exit_code # None
    /\ error = Raised("HTTPError", "_fetch_continuation")
    /\ Len(fetched) = 2

\* The grid items that are a video item with a string id, those that are a
\* continuation item, and the id or token each of them carries.
WellFormedVideos == {VideoItem(JStr(id)) : id \in VideoIds}
Continuations == {ContinuationItem(JStr(t)) : t \in Tokens}
IdOfVideo == [item \in WellFormedVideos |-> CHOOSE id \in VideoIds : item = VideoItem(JStr(id))]
TokenOfContinuation ==
    [item \in Continuations |-> CHOOSE t \in Tokens : item = ContinuationItem(JStr(t))]
IsWellFormedVideo(item) == item \in WellFormedVideos
IsContinuation(item) == item \in Continuations
IsMalformed(item) == item \in {MalformedItem, NonMappingItem}
IdOf(item) == IdOfVideo[item]
TokenOf(item) == TokenOfContinuation[item]

\* The ids of the well-formed video items of a page, and the tokens of its
\* continuation items, in page order.
WellFormedIds(items) ==
    LET kept == SelectSeq(items, IsWellFormedVideo)
    IN  [i \in 1..Len(kept) |-> IdOf(kept[i])]
WellFormedTokens(items) ==
    LET kept == SelectSeq(items, IsContinuation)
    IN  [i \in 1..Len(kept) |-> TokenOf(kept[i])]

\* The items of the i-th page parsed: the grid, then the answers fetched.
PageItems(i) == IF i = 1 THEN InitialGrid ELSE ItemsOf(server[fetched[i - 1]])

\* C12: an item that is no mapping and a video item whose id is no string
\* contribute no entry and raise nothing: every page parsed yields exactly its
\* well-formed videos, in order; without a limit its tokens are all queued and
\* its new videos all returned; and the step that parses a page holding a
\* malformed item does not fail.
C12_MalformedItemsSkipped ==
    /\ [](pc \in {"crawling", "finishing", "done"}
              => /\ \A i \in 1..Len(pages) : pages[i] = WellFormedIds(PageItems(i))
                 /\ limit = None
                        => /\ discovered
                                = Flatten([i \in 1..Len(pages) |-> WellFormedTokens(PageItems(i))])
                           /\ \A i \in 1..Len(pages) :
                                  Range(pages[i]) \subseteq Range(Ids(collected))
                 /\ (pc = "done" /\ limit = None)
                        => \A i \in 1..Len(pages) :
                               Range(pages[i]) \subseteq Range(Ids(result)))
    /\ [][(pc = "crawling" /\ tokens # <<>> /\ configured(api_key, api_context)
               /\ server[Head(tokens)] # HTTPError)
              => (pc' # "failed" /\ error' = NoError)]_vars

\* A page fetched from the endpoint held a malformed item in front of a video
\* and a continuation token; the video was returned and the token's page was
\* fetched.
C12_Witness ==
    /\ pc = "done"
    /\ limit = None
    /\ Len(fetched) = 2
    /\ \E id \in VideoIds :
          /\ ItemsOf(server[fetched[1]])
                 = <<MalformedItem, VideoItem(JStr(id)), ContinuationItem(JStr(fetched[2]))>>
          /\ id \in Range(Ids(result))

\* C16 (as claimed): every entry of the returned list has a video id that is a
\* string and is not empty.
C16_NonEmptyIds ==
    pc = "done" => \A i \in 1..Len(result) : result[i].video_id # ""

Prefix(seq, n) == SubSeq(seq, 1, IF n < Len(seq) THEN n ELSE Len(seq))

\* C21: for the same page and the same answers of the endpoint, when the call
\* without a limit returns the list L, the call with limit N returns the first
\* min(N, Len(L)) entries of L, for every N from 0 up to more than L holds.
\* (The call that ran is the call of the function scrape, which is the loop
\* behind the bootstrap of the page: same list, same number of requests.  main
\* changes none of this when it exits.)
C21_LimitIsPrefix ==
    (pc = "done" /\ exit_code = None)
        => LET start == bootstrap(html)
           IN  /\ crawl(start, server, limit)
                      = [returned |-> TRUE, result |-> result, fetches |-> Len(fetched)]
               /\ limit = None
                      => \A n \in 0..(MaxItems + 1) :
                             LET limited == crawl(start, server, JNum(n))
                             IN  limited.returned /\ limited.result = Prefix(result, n)

\* A call without a limit sent two requests and returned two entries; with the
\* limit 1 it returns the first of them after one request.
C21_Witness ==
    /\ pc = "done"
    /\ limit = None
    /\ Len(fetched) = 2
    /\ Len(result) = 2
    /\ scrape(html, server, JNum(1)).fetches = 1
    /\ scrape(html, server, JNum(1)).result = <<result[1]>>

\* C23 (as claimed): once _prepare_api has accepted the configuration, no
\* continuation step fails for a configuration that is not initialised.
C23_ConfiguredMeansUsable ==
    (IsStr(api_key) /\ IsDict(api_context))
        => error # Raised("RuntimeError", "_fetch_continuation")

\* ------------------------------------------------------- the scan's claims
\* A call of _extract_json_object has returned.
Extracted == scan_pc = "returned" /\ Len(markers) = 1

\* C13 (as claimed): for a text made of a marker, an object and trailing
\* statements, _extract_json_object returns the parse of the object's text,
\* also when a string value of the object holds brace or bracket characters.
C13_BalancedScan ==
    (Extracted /\ planted[1].value \in ObjectTexts)
        => /\ loads(planted[1].value) # JSONDecodeError
           /\ document = loads(planted[1].value)

\* C17 (as claimed): the scan starts at the first brace or bracket behind the
\* marker, so that a value that is an array is returned whole.
C17_ScanStart ==
    (Extracted /\ planted[1].value \in ArrayTexts)
        => /\ IsList(loads(planted[1].value))
           /\ document = loads(planted[1].value)

\* The place of a marker in the caller's list.
MarkerRank(marker) == CHOOSE i \in 1..Len(markers) : markers[i] = marker

\* C14 (as claimed): when the scripts of a document hold different markers,
\* _find_json_in_scripts returns the value behind the marker that comes first
\* in the caller's list, whichever script holds it.
C14_MarkerPriority ==
    (scan_pc = "returned" /\ Len(planted) = 2 /\ planted[1].marker # planted[2].marker)
        => LET first == IF MarkerRank(planted[1].marker) < MarkerRank(planted[2].marker)
                        THEN planted[1] ELSE planted[2]
           IN  document = loads(first.value)

\* ------------------------------------------------- the tree builder's claims
Root == 1
LastEvent == events[Len(events)]
Handled(kind) == Len(events') = Len(events) + 1 /\ events'[Len(events')].kind = kind

\* C15: a close tag that matches no node from the current node up to the root
\* is handled without a failure and leaves the root as the insertion point:
\* the element or the text that comes next becomes the last child of the root.
C15_MalformedMarkupTolerance ==
    /\ [](unmatched => current = Root)
    /\ [][(Handled("end")
               /\ \A n \in Range(PathFrom(nodes, current)) :
                      nodes[n].name # events'[Len(events')].tag)
              => (unmatched' /\ current' = Root /\ nodes' = nodes)]_vars
    /\ [][(unmatched /\ Handled("start"))
              => /\ Len(nodes') = Len(nodes) + 1
                 /\ nodes'[Len(nodes')].parent = Root
                 /\ nodes'[Root].children
                        = Append(nodes[Root].children, TagChild(Len(nodes')))]_vars
    /\ [][(unmatched /\ Handled("data") /\ events'[Len(events')].tag # "")
              => nodes'[Root].children
                     = Append(nodes[Root].children, TextChild(events'[Len(events')].tag))]_vars

\* Two elements were open when a close tag matched neither; the element opened
\* next is a child of the root.
C15_Witness ==
    /\ Len(events) = 4
    /\ events[1].kind = "start" /\ events[2].kind = "start"
    /\ events[3].kind = "end" /\ events[3].tag \notin {events[1].tag, events[2].tag}
    /\ events[4].kind = "start"
    /\ nodes[4].parent = Root
    /\ Len(nodes[Root].children) = 2

\* The nearest node named tag on the path from a node up to the root.
Nearest(tree, node, tag) ==
    LET path == PathFrom(tree, node)
        i == CHOOSE j \in 1..Len(path) :
                 /\ tree[path[j]].name = tag
                 /\ \A k \in 1..(j - 1) : tree[path[k]].name # tag
    IN  path[i]

\* C20: a close tag named as a node of the path from the current node up to the
\* root makes the parent of the nearest such node the insertion point, and
\* leaves every node of the tree where it is.
C20_CloseTagMatching ==
    [][(Handled("end")
           /\ \E n \in Range(PathFrom(nodes, current)) :
                  nodes[n].name = events'[Len(events')].tag)
          => /\ current'
                    = nodes[Nearest(nodes, current, events'[Len(events')].tag)].parent
             /\ nodes' = nodes]_vars

\* A close tag closed the outer of two nested elements of different names:
\* the inner one was closed with it, and the text that followed went to the root.
C20_Witness ==
    /\ Len(events) = 4
    /\ events[1].kind = "start" /\ events[2].kind = "start"
    /\ events[1].tag # events[2].tag
    /\ events[3] = [kind |-> "end", tag |-> events[1].tag]
    /\ events[4] = [kind |-> "data", tag |-> "x"]
    /\ current = Root
    /\ nodes[Root].children = <<TagChild(2), TextChild("x")>>

\* The elements in the children list of a node.
ChildTags(tree, node) ==
    {tree[node].children[i].ref :
        i \in {j \in 1..Len(tree[node].children) : tree[node].children[j].kind = "tag"}}

RECURSIVE Descendants(_, _, _)
\* The nodes reachable from a set of nodes through children, in at most
\* steps steps.
Descendants(tree, from, steps) ==
    LET more == from \cup UNION {ChildTags(tree, n) : n \in from}
    IN  IF steps = 0 \/ more = from THEN from ELSE Descendants(tree, more, steps - 1)

\* The places (node, position) of the children lists that hold an element.
PlacesOf(tree, element) ==
    {place \in (1..Len(tree)) \X (1..MaxEvents) :
        /\ place[2] <= Len(tree[place[1]].children)
        /\ tree[place[1]].children[place[2]] = TagChild(element)}

\* C22: after any sequence of events the insertion point is the root or an
\* element reachable from the root through children, the root has no parent
\* and is in no children list, and every element is in exactly one place of
\* one children list, that of the node its parent link names.
C22_TreeWellFormed ==
    current # 0
        => /\ current \in Descendants(nodes, {Root}, Len(nodes))
           /\ nodes[Root].parent = 0
           /\ PlacesOf(nodes, Root) = {}
           /\ \A element \in 2..Len(nodes) :
                  /\ Cardinality(PlacesOf(nodes, element)) = 1
                  /\ \A place \in PlacesOf(nodes, element) :
                         place[1] = nodes[element].parent
           /\ Descendants(nodes, {Root}, Len(nodes)) = 1..Len(nodes)

\* Two nested elements and a further child of the root, made after a close
\* tag, with text in between; the insertion point is the last element.
C22_Witness ==
    /\ Len(events) = 5
    /\ Len(nodes) = 4
    /\ nodes[3].parent = 2
    /\ nodes[4].parent = Root
    /\ current = 4
    /\ \E i \in 1..Len(events) : events[i].kind = "end"
    /\ \E i \in 1..Len(events) : events[i] = [kind |-> "data", tag |-> "x"]

\* ---------------------------------------------------- the helpers' claims
RECURSIVE Mappings(_)
RECURSIVE MappingsOfAll(_)
\* The mappings of a structure in depth-first pre-order: a mapping, then the
\* mappings of its values in key order; the mappings of a sequence's elements
\* in sequence order.
Mappings(node) ==
    IF IsDict(node)
    THEN <<node>> \o MappingsOfAll([i \in 1..Len(node.v) |-> node.v[i][2]])
    ELSE IF IsList(node) THEN MappingsOfAll(node.v)
    ELSE <<>>
MappingsOfAll(values) ==
    IF values = <<>> THEN <<>> ELSE Mappings(Head(values)) \o MappingsOfAll(Tail(values))

\* The mappings of the structure that hold the key, in pre-order.
Holders(node, key) == SelectSeq(Mappings(node), LAMBDA d : HasKey(d, key))

\* What the claim says _find_value returns.
FirstHeld(node, key) ==
    IF Holders(node, key) = <<>> THEN None ELSE Lookup(Holders(node, key)[1], key)

\* C18 (as claimed): _find_value returns the value under the key in the first
\* mapping, in depth-first pre-order, that holds the key, whatever the mappings
\* after it hold, and None when no mapping holds the key.
C18_KeySearch ==
    helper_pc = "returned_value"
        => /\ returned = FirstHeld(argument, SearchedKey)
           /\ Holders(argument, SearchedKey) = <<>> => returned = None

\* The nodes right below a node: the values of a mapping in iteration order,
\* the elements of a sequence in sequence order.
Children(node) ==
    IF IsDict(node) THEN [i \in 1..Len(node.v) |-> node.v[i][2]]
    ELSE IF IsList(node) THEN node.v
    ELSE <<>>

RECURSIVE Paths(_)
\* The places of the nodes of a structure: the numbers of the children taken
\* from the top down to the node.
Paths(node) ==
    {<<>>} \cup UNION { {<<i>> \o path : path \in Paths(Children(node)[i])}
                         : i \in 1..Len(Children(node)) }

RECURSIVE NodeAt(_, _)
NodeAt(node, path) ==
    IF path = <<>> THEN node ELSE NodeAt(Children(node)[Head(path)], Tail(path))

\* The node at the first place lies above the node at the second.
Above(upper, path) ==
    Len(upper) < Len(path) /\ SubSeq(path, 1, Len(upper)) = upper

\* Depth-first pre-order: a node comes before the nodes below it, and the
\* nodes of an earlier child before those of a later one.
Precedes(path, other) ==
    \/ Above(path, other)
    \/ \E i \in 1..Len(path) :
          /\ i <= Len(other)
          /\ SubSeq(path, 1, i - 1) = SubSeq(other, 1, i - 1)
          /\ path[i] < other[i]

HoldsAt(node, path, key) == IsDict(NodeAt(node, path)) /\ HasKey(NodeAt(node, path), key)

\* The places of the mappings that hold the key with a value other than null
\* and lie within no mapping that holds the key.
Found(node, key) ==
    {path \in Paths(node) :
        /\ HoldsAt(node, path, key)
        /\ Lookup(NodeAt(node, path), key) # None
        /\ \A upper \in Paths(node) : Above(upper, path) => ~HoldsAt(node, upper, key)}

\* The value under the key in the first of them.
FirstFound(node, key) ==
    LET first == CHOOSE path \in Found(node, key) :
                     \A other \in Found(node, key) \ {path} : Precedes(path, other)
    IN  Lookup(NodeAt(node, first), key)

\* C18 (amended): for any structure, _find_value returns the value under the
\* key in the first mapping, in depth-first pre-order, that holds the key with
\* a value other than null and lies within no mapping that holds the key,
\* whatever the mappings after it hold, and None exactly when the structure
\* has no such mapping.
C18_KeySearchSkippingNull ==
    helper_pc = "returned_value"
        => /\ Found(argument, SearchedKey) # {}
                  => returned = FirstFound(argument, SearchedKey)
           /\ returned = None <=> Found(argument, SearchedKey) = {}

\* The search went down into a mapping of two values before it reached a
\* mapping that holds the key higher up: it passed the null under the key in
\* the first value and returned what the second value holds under the key.
C18_Witness ==
    /\ helper_pc = "returned_value"
    /\ argument = JList(<<JDict(<< <<"x", JDict(<< <<"k", None>> >>)>>,
                                   <<"y", JDict(<< <<"k", JNum(1)>> >>)>> >>),
                          JDict(<< <<"k", JNum(2)>> >>)>>)
    /\ returned = JNum(1)

\* What the claim's rule gives for a text field: the runs' texts joined when
\* the field carries a list of runs, else its plain text, else None.
TextByRuns(field) ==
    IF IsDict(field) /\ IsList(Get(field, "runs"))
    THEN JStr(join(extract_runs_text(Get(field, "runs"))))
    ELSE IF IsDict(field) /\ IsStr(Get(field, "simpleText"))
         THEN Get(field, "simpleText")
         ELSE None

\* A field for which one of the two branches applies.
HasText(field) == TextByRuns(field) # None

\* C19 (as claimed): title, view count and published time follow the one
\* rule: the joined runs when the field carries runs, the plain text only
\* without runs; view count and published time are None when neither applies.
\* (A view count or published time that is a bare string is left aside.)
C19_TextPreference ==
    helper_pc = "returned_entry"
        => /\ HasText(Get(argument, "title"))
                  => returned.title = TextByRuns(Get(argument, "title")).v
           /\ ~IsStr(Get(argument, "viewCountText"))
                  => returned.view_count_text = TextByRuns(Get(argument, "viewCountText"))
           /\ ~IsStr(Get(argument, "publishedTimeText"))
                  => returned.published_time = TextByRuns(Get(argument, "publishedTimeText"))
====
